---- MODULE Spec2Model ----
(***************************************************************************)
(* Model of memkmc-tools: the periodic simple-cubic lattice writer         *)
(* (memkmc/zacrosio/lattice.py), the voxel classifier with its grid        *)
(* emitter (memkmc/voxel/grid.py), the initial-state writer and the three  *)
(* fixed-text writers (memkmc/zacrosio), the two seed-preparation programs *)
(* (cli_zacros_prepare_run.py, cli_zacros_inputs.py), the trajectory       *)
(* reader (memkmc/voxel/lammps.py) and the counting functions              *)
(* (memkmc/voxel/properties.py).                                           *)
(*                                                                         *)
(* Each function is a sequential program; its state is held in one record  *)
(* variable whose fields are the function's arguments, locals and the text *)
(* written so far.  One action models one statement block or one loop      *)
(* iteration.                                                              *)
(***************************************************************************)
EXTENDS Integers, Sequences, FiniteSets, TLC

VARIABLES lat, blg, wgx, wis, emt, cli, trj, prp

vars == <<lat, blg, wgx, wis, emt, cli, trj, prp>>

(***************************************************************************)
(* Bounds of the model.                                                    *)
(***************************************************************************)
\* largest lattice / grid extent along one axis
MaxDim == 4

\* largest number of particles handed to build_label_grid
MaxParticles == 3

\* frames of a trajectory file
MaxFrames == 3

\* voxels of a label grid handed to count_grid_voxels
MaxVoxels == 3

(***************************************************************************)
(* Generic helpers for Python built-ins.                                   *)
(***************************************************************************)
Min(S) == CHOOSE m \in S : \A o \in S : m <= o

RECURSIVE SortedSeq(_)
\* sorted(S) for a set of integers
SortedSeq(S) == IF S = {} THEN <<>> ELSE <<Min(S)>> \o SortedSeq(S \ {Min(S)})

\* set(xs) for a list
ToSet(xs) == {xs[i] : i \in 1..Len(xs)}

\* range(n) as an ordered list of values; empty when n <= 0
RangeNonEmpty(n) == n >= 1

(***************************************************************************)
(* lattice.py                                                              *)
(***************************************************************************)
\* the lattice extents a caller may pass (nonpositive ones included)
Dims == -1..MaxDim

coord_to_id_nowrap(ix, iy, iz, nx, ny, nz) == ix + iy * nx + iz * nx * ny + 1

coord_to_id_swapped(ix, iy, iz, nx, ny, nz) ==
    (ix % nx) + (iy % ny) * ny + (iz % nz) * nx * ny + 1

coord_to_id(ix, iy, iz, nx, ny, nz) ==
    (ix % nx) + (iy % ny) * nx + (iz % nz) * nx * ny + 1

\* f"{i / n:.6f}" as an integer number of millionths (round to nearest; a
\* tie needs 128 | n and does not occur for the extents used here)
Frac6(i, n) == (2 * i * 1000000 + n) \div (2 * n)

neighbor_list_dup(ix, iy, iz, nx, ny, nz) ==
    << coord_to_id(ix + 1, iy, iz, nx, ny, nz),
       coord_to_id(ix - 1, iy, iz, nx, ny, nz),
       coord_to_id(ix, iy + 1, iz, nx, ny, nz),
       coord_to_id(ix, iy - 1, iz, nx, ny, nz),
       coord_to_id(ix, iy, iz + 1, nx, ny, nz),
       coord_to_id(ix, iy, iz + 1, nx, ny, nz) >>

neighbor_list_with_self(ix, iy, iz, nx, ny, nz) ==
    << coord_to_id(ix + 1, iy, iz, nx, ny, nz),
       coord_to_id(ix - 1, iy, iz, nx, ny, nz),
       coord_to_id(ix, iy + 1, iz, nx, ny, nz),
       coord_to_id(ix, iy - 1, iz, nx, ny, nz),
       coord_to_id(ix, iy, iz + 1, nx, ny, nz),
       coord_to_id(ix, iy, iz, nx, ny, nz) >>

\* the six candidate neighbour IDs, lines 72-79
neighbor_list(ix, iy, iz, nx, ny, nz) ==
    << coord_to_id(ix + 1, iy, iz, nx, ny, nz),
       coord_to_id(ix - 1, iy, iz, nx, ny, nz),
       coord_to_id(ix, iy + 1, iz, nx, ny, nz),
       coord_to_id(ix, iy - 1, iz, nx, ny, nz),
       coord_to_id(ix, iy, iz + 1, nx, ny, nz),
       coord_to_id(ix, iy, iz - 1, nx, ny, nz) >>

neighbor_ids_unsorted(ix, iy, iz, nx, ny, nz) ==
    neighbor_list(ix, iy, iz, nx, ny, nz)

\* neighbor_ids = sorted(set(neighbor_ids)), line 83
neighbor_ids(ix, iy, iz, nx, ny, nz) ==
    SortedSeq(ToSet(neighbor_list(ix, iy, iz, nx, ny, nz)))

neighbor_count_bad_gt(nbrs) == Len(nbrs) > 6

\* the test of line 84
neighbor_count_bad(nbrs) == Len(nbrs) # 6

dims_invalid_strict(nx, ny, nz) == nx < 0 \/ ny < 0 \/ nz < 0

\* the guard of line 42
dims_invalid(nx, ny, nz) == nx <= 0 \/ ny <= 0 \/ nz <= 0

\* one line of the lattice file: a keyword and the integers that follow it
Line(tag, vals) == [tag |-> tag, vals |-> vals]

\* the site row of lines 89-94
site_row(site_id, ix, iy, iz, nx, ny, nz, nbrs) ==
    Line("site", <<site_id, Frac6(ix, nx), Frac6(iy, ny), Frac6(iz, nz), Len(nbrs)>> \o nbrs)

lat_next_index_x_outer(l) ==
    IF l.iz + 1 < l.nz THEN [l EXCEPT !.iz = l.iz + 1]
    ELSE IF l.iy + 1 < l.ny THEN [l EXCEPT !.iz = 0, !.iy = l.iy + 1]
    ELSE IF l.ix + 1 < l.nx THEN [l EXCEPT !.iz = 0, !.iy = 0, !.ix = l.ix + 1]
    ELSE [l EXCEPT !.pc = "footer"]

\* advance the nested loops of lines 63-67: ix innermost, iz outermost
lat_next_index(l) ==
    IF l.ix + 1 < l.nx THEN [l EXCEPT !.ix = l.ix + 1]
    ELSE IF l.iy + 1 < l.ny THEN [l EXCEPT !.ix = 0, !.iy = l.iy + 1]
    ELSE IF l.iz + 1 < l.nz THEN [l EXCEPT !.ix = 0, !.iy = 0, !.iz = l.iz + 1]
    ELSE [l EXCEPT !.pc = "footer"]

lat_raise_and_go_on(l, site_id) ==
    lat_next_index([l EXCEPT !.exc = "RuntimeError", !.exc_site = site_id])

\* the raise of lines 85-87: the RuntimeError names site_id and control
\* passes to the finally clause
lat_raise(l, site_id) ==
    [l EXCEPT !.pc = "finally", !.exc = "RuntimeError", !.exc_site = site_id]

\* state of a call write_cubic_pbc_lattice(nx, ny, nz, outfile, fh=...)
LatInit(nx, ny, nz, fhGiven) ==
    [ pc         |-> "validate",
      nx         |-> nx,
      ny         |-> ny,
      nz         |-> nz,
      fhGiven    |-> fhGiven,     \* the caller passed fh
      n_sites    |-> 0,
      need_close |-> FALSE,
      opened     |-> FALSE,       \* open(outfile, "w") was called
      closed     |-> FALSE,       \* f.close() was called
      out        |-> <<>>,        \* the lines written to f
      ix         |-> 0,
      iy         |-> 0,
      iz         |-> 0,
      exc        |-> "none",      \* exception being raised
      exc_site   |-> 0 ]          \* site ID named in the RuntimeError

\* nothing of write_cubic_pbc_lattice is running
LatIdle == [LatInit(1, 1, 1, FALSE) EXCEPT !.pc = "idle"]

\* lines 42-45
LatValidate ==
    /\ lat.pc = "validate"
    /\ lat' = IF dims_invalid(lat.nx, lat.ny, lat.nz)
              THEN [lat EXCEPT !.pc = "raised", !.exc = "ValueError"]
              ELSE [lat EXCEPT !.pc = "open", !.n_sites = lat.nx * lat.ny * lat.nz]
    /\ UNCHANGED <<blg, wgx, wis, emt, cli, trj, prp>>

\* lines 47-52
LatOpen ==
    /\ lat.pc = "open"
    /\ lat' = IF ~lat.fhGiven
              THEN [lat EXCEPT !.pc = "header", !.opened = TRUE, !.need_close = TRUE]
              ELSE [lat EXCEPT !.pc = "header"]
    /\ UNCHANGED <<blg, wgx, wis, emt, cli, trj, prp>>

\* lines 55-60, and entry into the loops of lines 63-67
LatHeader ==
    /\ lat.pc = "header"
    /\ lat' = [lat EXCEPT
                 !.out = lat.out \o << Line("lattice explicit", <<>>),
                                       Line("n_sites", <<lat.n_sites>>),
                                       Line("max_coord", <<6>>),
                                       Line("n_site_types", <<1>>),
                                       Line("site_type_names", <<>>),
                                       Line("lattice_structure", <<>>) >>,
                 !.pc = IF RangeNonEmpty(lat.nz) /\ RangeNonEmpty(lat.ny) /\ RangeNonEmpty(lat.nx)
                        THEN "loop" ELSE "footer"]
    /\ UNCHANGED <<blg, wgx, wis, emt, cli, trj, prp>>

\* one iteration of the innermost loop body, lines 68-94
LatSite ==
    /\ lat.pc = "loop"
    /\ LET site_id == coord_to_id(lat.ix, lat.iy, lat.iz, lat.nx, lat.ny, lat.nz)
           nbrs    == neighbor_ids(lat.ix, lat.iy, lat.iz, lat.nx, lat.ny, lat.nz)
       IN  lat' = IF neighbor_count_bad(nbrs)
                  THEN lat_raise(lat, site_id)
                  ELSE lat_next_index(
                         [lat EXCEPT !.out = Append(lat.out,
                              site_row(site_id, lat.ix, lat.iy, lat.iz,
                                       lat.nx, lat.ny, lat.nz, nbrs))])
    /\ UNCHANGED <<blg, wgx, wis, emt, cli, trj, prp>>

\* lines 96-97
LatFooter ==
    /\ lat.pc = "footer"
    /\ lat' = [lat EXCEPT !.out = lat.out \o << Line("end_lattice_structure", <<>>),
                                                Line("end_lattice", <<>>) >>,
                          !.pc = "finally"]
    /\ UNCHANGED <<blg, wgx, wis, emt, cli, trj, prp>>

\* lines 98-100
LatFinally ==
    /\ lat.pc = "finally"
    /\ lat' = [lat EXCEPT !.closed = lat.need_close,
                          !.pc = IF lat.exc = "none" THEN "returned" ELSE "raised"]
    /\ UNCHANGED <<blg, wgx, wis, emt, cli, trj, prp>>

(***************************************************************************)
(* grid.py: build_label_grid                                               *)
(***************************************************************************)
\* Class names are Python strings; Code gives their code points, which is
\* what sorted() and < compare.
Code(name) ==
    CASE name = "a"       -> <<97>>
      [] name = "b"       -> <<98>>
      [] name = "polymer" -> <<112, 111, 108, 121, 109, 101, 114>>
      [] name = "tma"     -> <<116, 109, 97>>
      [] name = "void"    -> <<118, 111, 105, 100>>
      [] name = "water"   -> <<119, 97, 116, 101, 114>>

RECURSIVE SeqLess(_, _)
\* lexicographic order of two code-point sequences
SeqLess(s, t) ==
    IF t = <<>> THEN FALSE
    ELSE IF s = <<>> THEN TRUE
    ELSE IF s[1] # t[1] THEN s[1] < t[1]
    ELSE SeqLess(Tail(s), Tail(t))

\* Python's c < d on strings
StrLess(c, d) == SeqLess(Code(c), Code(d))

StrMin(S) == CHOOSE m \in S : \A o \in S \ {m} : StrLess(m, o)

RECURSIVE SortedNames(_)
\* sorted(S) for a set of strings
SortedNames(S) == IF S = {} THEN <<>> ELSE <<StrMin(S)>> \o SortedNames(S \ {StrMin(S)})

\* the atom types that occur in the particle list
TypeIds == {1, 2, 3}

\* type -> class mappings as load_type_classes returns them (never empty);
\* a class name is any token of the mapping file, "void" included
TypeMaps ==
    { (1 :> "water") @@ (2 :> "polymer"),
      (1 :> "water") @@ (2 :> "polymer") @@ (3 :> "tma"),
      (1 :> "b") @@ (2 :> "a"),
      (1 :> "tma") @@ (2 :> "a"),
      (1 :> "water") @@ (2 :> "a"),
      (1 :> "water") @@ (2 :> "polymer") @@ (3 :> "a"),
      (1 :> "a") @@ (2 :> "void"),
      (1 :> "water") @@ (3 :> "water"),
      (2 :> "polymer") @@ (3 :> "tma") }

Box(xlo, ylo, zlo, lx, ly, lz) ==
    [xlo |-> xlo, ylo |-> ylo, zlo |-> zlo, lx |-> lx, ly |-> ly, lz |-> lz]

\* (box, spacing) pairs; lengths and coordinates are integer-valued floats
Geometries ==
    { <<Box(0, 0, 0, 8, 8, 8), 4>>,
      <<Box(0, 0, 0, 7, 1, 1), 2>>,
      <<Box(-1, 0, 0, 3, 2, 1), 1>> }

\* particle positions
Points ==
    { <<0, 0, 0>>, <<1, 1, 1>>, <<1, 1, 0>>, <<5, 1, 1>>, <<1, 5, 1>>, <<1, 1, 5>>,
      <<3, 0, 0>>, <<7, 0, 0>>, <<8, 1, 1>>, <<-1, 0, 0>>, <<-2, 0, 0>>, <<4, 4, 4>> }

n_bins_ceil(l, spacing) ==
    IF l % spacing = 0 THEN l \div spacing ELSE (l \div spacing) + 1

n_bins_unclamped(l, spacing) == l \div spacing

\* n = int(l // spacing); if n < 1: n = 1   (lines 58-66)
n_bins(l, spacing) == IF (l \div spacing) < 1 THEN 1 ELSE l \div spacing

RECURSIVE Log2Floor(_, _)
\* the k >= 0 with 2^k <= l/n < 2^(k+1), for l >= n >= 1
Log2Floor(l, n) == IF l < 2 * n THEN 0 ELSE 1 + Log2Floor(l, 2 * n)

RECURSIVE ShiftMod(_, _, _)
\* (r * 2^e) mod n
ShiftMod(r, e, n) == IF e = 0 THEN r % n ELSE ShiftMod((2 * r) % n, e - 1, n)

\* binsize = l / n is rounded to a double with a 53-bit significand: the sign
\* of binsize - l/n (0 exact, 1 rounded up, -1 rounded down)
DivRounding(l, n) ==
    LET r == ShiftMod(l, 52 - Log2Floor(l, n), n)
    IN  IF r = 0 THEN 0 ELSE IF 2 * r > n THEN 1 ELSE -1

\* binsize = l / n   (lines 68-70): the double nearest to the quotient num/den
bin_size(l, n) == [num |-> l, den |-> n, rnd |-> DivRounding(l, n)]

bin_index_clamped(x, lo, binsize) ==
    LET q == ((x - lo) * binsize.den) \div binsize.num
    IN  IF q < 0 THEN 0 ELSE IF q > binsize.den - 1 THEN binsize.den - 1 ELSE q

\* int((x - lo) // binsize)   (lines 88-90): the floor of the quotient of the
\* doubles x - lo and binsize, which is the floor of (x - lo) * den / num
\* unless that is an integer and binsize is inexact
bin_index(x, lo, binsize) ==
    LET d == x - lo
        q == (d * binsize.den) \div binsize.num
    IN  IF d # 0 /\ (d * binsize.den) % binsize.num = 0
        THEN IF d > 0 /\ binsize.rnd = 1 THEN q - 1
             ELSE IF d < 0 /\ binsize.rnd = -1 THEN q - 1
             ELSE q
        ELSE q

Voxels(nx, ny, nz) == (0..(nx - 1)) \X (0..(ny - 1)) \X (0..(nz - 1))

\* the test of line 92
in_grid(v, nx, ny, nz) ==
    /\ 0 <= v[1] /\ v[1] < nx
    /\ 0 <= v[2] /\ v[2] < ny
    /\ 0 <= v[3] /\ v[3] < nz

\* classes = sorted(set(type_to_class.values()))   (line 73)
classes_of(type_to_class) ==
    SortedNames({type_to_class[t] : t \in DOMAIN type_to_class})

\* class_to_int = {"void": 0}; class_to_int[cls] = i for i, cls in
\* enumerate(classes, start=1)   (lines 74-76)
class_to_int_of(classes) ==
    [c \in {"void"} \cup ToSet(classes) |->
        IF c \in ToSet(classes) THEN CHOOSE i \in 1..Len(classes) : classes[i] = c ELSE 0]

\* d.get(key, default)
Get(d, key, default) == IF key \in DOMAIN d THEN d[key] ELSE default

\* the cls of line 84, type_to_class.get(int(t)); it is None while isNone holds
NoClass == [isNone |-> TRUE, cls |-> ""]

lookup_class_default(type_to_class, t) ==
    IF t \in DOMAIN type_to_class
    THEN [isNone |-> FALSE, cls |-> type_to_class[t]]
    ELSE [isNone |-> FALSE, cls |-> type_to_class[Min(DOMAIN type_to_class)]]

lookup_class(type_to_class, t) ==
    IF t \in DOMAIN type_to_class
    THEN [isNone |-> FALSE, cls |-> type_to_class[t]]
    ELSE NoClass

\* the running (best_cls, best_count) of lines 118-119; best_cls is None
\* while isNone holds
NoBest == [isNone |-> TRUE, cls |-> "", count |-> 0]

RECURSIVE majority(_, _, _, _)
\* the loop of lines 120-128 from position i on
majority(classes, cnt, i, best) ==
    IF i > Len(classes) THEN best
    ELSE LET c == classes[i]
             c_count == cnt[c]
         IN  IF \/ c_count > best.count
                \/ /\ c_count = best.count
                   /\ c_count > 0
                   /\ (best.isNone \/ StrLess(c, best.cls))
             THEN majority(classes, cnt, i + 1,
                           [isNone |-> FALSE, cls |-> c, count |-> c_count])
             ELSE majority(classes, cnt, i + 1, best)

classify_no_tma_priority(classes, cnt) ==
    LET has_water   == "water" \in ToSet(classes)
        has_polymer == "polymer" \in ToSet(classes)
    IN  IF has_water /\ has_polymer
        THEN IF cnt["water"] >= cnt["polymer"] THEN "water" ELSE "polymer"
        ELSE LET best == majority(classes, cnt, 1, NoBest)
             IN  IF ~best.isNone THEN best.cls ELSE "void"

classify_strict_water(classes, cnt) ==
    LET has_tma     == "tma" \in ToSet(classes)
        has_water   == "water" \in ToSet(classes)
        has_polymer == "polymer" \in ToSet(classes)
    IN  IF has_tma /\ cnt["tma"] > 0 THEN "tma"
        ELSE IF has_water /\ has_polymer
        THEN IF cnt["water"] > cnt["polymer"] THEN "water" ELSE "polymer"
        ELSE LET best == majority(classes, cnt, 1, NoBest)
             IN  IF ~best.isNone THEN best.cls ELSE "void"

classify_plain_majority(classes, cnt) ==
    LET has_tma == "tma" \in ToSet(classes)
    IN  IF has_tma /\ cnt["tma"] > 0 THEN "tma"
        ELSE LET best == majority(classes, cnt, 1, NoBest)
             IN  IF ~best.isNone THEN best.cls ELSE "void"

\* the class chosen for one voxel, lines 98-129; cnt[c] is counts[c][ix,iy,iz]
classify(classes, cnt) ==
    LET has_tma     == "tma" \in ToSet(classes)
        has_water   == "water" \in ToSet(classes)
        has_polymer == "polymer" \in ToSet(classes)
    IN  IF has_tma /\ cnt["tma"] > 0 THEN "tma"
        ELSE IF has_water /\ has_polymer
        THEN IF cnt["water"] >= cnt["polymer"] THEN "water" ELSE "polymer"
        ELSE LET best == majority(classes, cnt, 1, NoBest)
             IN  IF ~best.isNone THEN best.cls ELSE "void"

\* advance the nested loops of lines 102-104: ix outermost, iz innermost
blg_next_index(b) ==
    IF b.iz + 1 < b.nz THEN [b EXCEPT !.iz = b.iz + 1]
    ELSE IF b.iy + 1 < b.ny THEN [b EXCEPT !.iz = 0, !.iy = b.iy + 1]
    ELSE IF b.ix + 1 < b.nx THEN [b EXCEPT !.iz = 0, !.iy = 0, !.ix = b.ix + 1]
    ELSE [b EXCEPT !.pc = "returned"]

\* state of a call build_label_grid(box, types, positions, spacing, type_to_class)
BlgInit(box, spacing, type_to_class) ==
    [ pc            |-> "bins",
      box           |-> box,
      spacing       |-> spacing,
      type_to_class |-> type_to_class,
      nx            |-> 0,
      ny            |-> 0,
      nz            |-> 0,
      binsizex      |-> bin_size(1, 1),
      binsizey      |-> bin_size(1, 1),
      binsizez      |-> bin_size(1, 1),
      classes       |-> <<>>,
      class_to_int  |-> ("void" :> 0),
      counts        |-> <<>>,     \* counts[cls][<<ix, iy, iz>>]
      n_read        |-> 0,        \* particles taken from zip(types, positions)
      labels        |-> <<>>,     \* labels[<<ix, iy, iz>>]
      ix            |-> 0,
      iy            |-> 0,
      iz            |-> 0 ]

setup_rejecting(b) ==
    LET nx == n_bins(b.box.lx, b.spacing)
        ny == n_bins(b.box.ly, b.spacing)
        nz == n_bins(b.box.lz, b.spacing)
        classes == classes_of(b.type_to_class)
    IN  IF \/ n_bins_unclamped(b.box.lx, b.spacing) < 1
           \/ n_bins_unclamped(b.box.ly, b.spacing) < 1
           \/ n_bins_unclamped(b.box.lz, b.spacing) < 1
        THEN [b EXCEPT !.pc = "raised"]
        ELSE [b EXCEPT
                !.pc = "accumulate",
                !.nx = nx, !.ny = ny, !.nz = nz,
                !.binsizex = bin_size(b.box.lx, nx),
                !.binsizey = bin_size(b.box.ly, ny),
                !.binsizez = bin_size(b.box.lz, nz),
                !.classes = classes,
                !.class_to_int = class_to_int_of(classes),
                !.counts = [c \in ToSet(classes) |-> [v \in Voxels(nx, ny, nz) |-> 0]]]

\* the call after lines 54-79: bin numbers and sizes, class numbering, zeroed
\* count grids
setup(b) ==
    LET nx == n_bins(b.box.lx, b.spacing)
        ny == n_bins(b.box.ly, b.spacing)
        nz == n_bins(b.box.lz, b.spacing)
        classes == classes_of(b.type_to_class)
    IN  [b EXCEPT
           !.pc = "accumulate",
           !.nx = nx, !.ny = ny, !.nz = nz,
           !.binsizex = bin_size(b.box.lx, nx),
           !.binsizey = bin_size(b.box.ly, ny),
           !.binsizez = bin_size(b.box.lz, nz),
           !.classes = classes,
           !.class_to_int = class_to_int_of(classes),
           !.counts = [c \in ToSet(classes) |-> [v \in Voxels(nx, ny, nz) |-> 0]]]

\* lines 54-79
BlgSetup ==
    /\ blg.pc = "bins"
    /\ blg' = setup(blg)
    /\ UNCHANGED <<lat, wgx, wis, emt, cli, trj, prp>>

accumulate_overwrite(b, t, pos) ==
    LET cls  == lookup_class(b.type_to_class, t)
        v    == << bin_index(pos[1], b.box.xlo, b.binsizex),
                   bin_index(pos[2], b.box.ylo, b.binsizey),
                   bin_index(pos[3], b.box.zlo, b.binsizez) >>
        read == [b EXCEPT !.n_read = b.n_read + 1]
    IN  IF cls.isNone THEN read
        ELSE IF in_grid(v, b.nx, b.ny, b.nz)
        THEN [read EXCEPT !.ix = v[1], !.iy = v[2], !.iz = v[3],
                          !.counts = [c \in DOMAIN b.counts |->
                                        [b.counts[c] EXCEPT ![v] = IF c = cls.cls THEN 1 ELSE 0]]]
        ELSE [read EXCEPT !.ix = v[1], !.iy = v[2], !.iz = v[3]]

\* the call after one iteration of the loop of lines 82-94 for the particle
\* (t, pos): line 86 skips a type without class, line 92 a position outside
\* the grid, line 93 counts the others
accumulate(b, t, pos) ==
    LET cls  == lookup_class(b.type_to_class, t)
        v    == << bin_index(pos[1], b.box.xlo, b.binsizex),
                   bin_index(pos[2], b.box.ylo, b.binsizey),
                   bin_index(pos[3], b.box.zlo, b.binsizez) >>
        read == [b EXCEPT !.n_read = b.n_read + 1]
    IN  IF cls.isNone THEN read
        ELSE IF in_grid(v, b.nx, b.ny, b.nz)
        THEN [read EXCEPT !.ix = v[1], !.iy = v[2], !.iz = v[3],
                          !.counts[cls.cls][v] = @ + 1]
        ELSE [read EXCEPT !.ix = v[1], !.iy = v[2], !.iz = v[3]]

\* one iteration of the loop of lines 82-94, for the next particle (t, pos)
BlgAccumulate ==
    /\ blg.pc = "accumulate"
    /\ blg.n_read < MaxParticles
    /\ \E t \in TypeIds, pos \in Points : blg' = accumulate(blg, t, pos)
    /\ UNCHANGED <<lat, wgx, wis, emt, cli, trj, prp>>

BlgEndOfInput_rejecting_empty ==
    /\ blg.pc = "accumulate"
    /\ blg' = IF blg.n_read = 0
              THEN [blg EXCEPT !.pc = "raised"]
              ELSE [blg EXCEPT !.pc = "label",
                               !.labels = [v \in Voxels(blg.nx, blg.ny, blg.nz) |-> 0],
                               !.ix = 0, !.iy = 0, !.iz = 0]
    /\ UNCHANGED <<lat, wgx, wis, emt, cli, trj, prp>>

\* zip(types, positions) is exhausted; line 96 and entry into the loops of
\* lines 102-104 (every extent is >= 1)
BlgEndOfInput ==
    /\ blg.pc = "accumulate"
    /\ blg' = [blg EXCEPT !.pc = "label",
                          !.labels = [v \in Voxels(blg.nx, blg.ny, blg.nz) |-> 0],
                          !.ix = 0, !.iy = 0, !.iz = 0]
    /\ UNCHANGED <<lat, wgx, wis, emt, cli, trj, prp>>

\* one iteration of the innermost loop body, lines 105-131; line 133 after
\* the last one
BlgLabel ==
    /\ blg.pc = "label"
    /\ LET v   == <<blg.ix, blg.iy, blg.iz>>
           cls == classify(blg.classes, [c \in ToSet(blg.classes) |-> blg.counts[c][v]])
       IN  blg' = blg_next_index([blg EXCEPT !.labels[v] = Get(blg.class_to_int, cls, 0)])
    /\ UNCHANGED <<lat, wgx, wis, emt, cli, trj, prp>>

\* nothing of build_label_grid is running
BlgIdle == [BlgInit(Box(0, 0, 0, 1, 1, 1), 1, (1 :> "water")) EXCEPT !.pc = "idle"]

(***************************************************************************)
(* grid.py: write_grid_xyz                                                 *)
(***************************************************************************)
\* label grids handed to write_grid_xyz: one whose labels are all different
\* and one checkerboard, for every shape
CodedGrid(nx, ny, nz) == [v \in Voxels(nx, ny, nz) |-> v[1] + 10 * v[2] + 100 * v[3]]
ParityGrid(nx, ny, nz) == [v \in Voxels(nx, ny, nz) |-> (v[1] + v[2] + v[3]) % 2]

wgx_next_index_x_outer(w) ==
    IF w.iz + 1 < w.nz THEN [w EXCEPT !.iz = w.iz + 1]
    ELSE IF w.iy + 1 < w.ny THEN [w EXCEPT !.iz = 0, !.iy = w.iy + 1]
    ELSE IF w.ix + 1 < w.nx THEN [w EXCEPT !.iz = 0, !.iy = 0, !.ix = w.ix + 1]
    ELSE [w EXCEPT !.pc = "close"]

\* advance the nested loops of lines 148-150: ix innermost, iz outermost
wgx_next_index(w) ==
    IF w.ix + 1 < w.nx THEN [w EXCEPT !.ix = w.ix + 1]
    ELSE IF w.iy + 1 < w.ny THEN [w EXCEPT !.ix = 0, !.iy = w.iy + 1]
    ELSE IF w.iz + 1 < w.nz THEN [w EXCEPT !.ix = 0, !.iy = 0, !.iz = w.iz + 1]
    ELSE [w EXCEPT !.pc = "close"]

\* state of a call write_grid_xyz(labels, path), labels of shape (nx, ny, nz)
WgxInit(labels, nx, ny, nz) ==
    [ pc     |-> "open",
      labels |-> labels,
      nx     |-> nx,
      ny     |-> ny,
      nz     |-> nz,
      n_vox  |-> 0,
      opened |-> FALSE,
      closed |-> FALSE,
      out    |-> <<>>,
      ix     |-> 0,
      iy     |-> 0,
      iz     |-> 0 ]

\* nothing of write_grid_xyz is running
WgxIdle == [WgxInit(ParityGrid(1, 1, 1), 1, 1, 1) EXCEPT !.pc = "idle"]

\* lines 143-146
WgxOpen ==
    /\ wgx.pc = "open"
    /\ wgx' = [wgx EXCEPT !.pc = "header", !.n_vox = wgx.nx * wgx.ny * wgx.nz,
                          !.opened = TRUE]
    /\ UNCHANGED <<lat, blg, wis, emt, cli, trj, prp>>

\* line 147 (the count and the blank line), and entry into the loops
WgxHeader ==
    /\ wgx.pc = "header"
    /\ wgx' = [wgx EXCEPT
                 !.out = wgx.out \o << Line("count", <<wgx.n_vox>>), Line("blank", <<>>) >>,
                 !.pc = IF RangeNonEmpty(wgx.nz) /\ RangeNonEmpty(wgx.ny) /\ RangeNonEmpty(wgx.nx)
                        THEN "loop" ELSE "close"]
    /\ UNCHANGED <<lat, blg, wis, emt, cli, trj, prp>>

\* one iteration of the innermost loop body, lines 151-152
WgxLine ==
    /\ wgx.pc = "loop"
    /\ LET lab == wgx.labels[<<wgx.ix, wgx.iy, wgx.iz>>]
       IN  wgx' = wgx_next_index(
                    [wgx EXCEPT !.out = Append(wgx.out,
                                   Line("voxel", <<lab, wgx.ix, wgx.iy, wgx.iz>>))])
    /\ UNCHANGED <<lat, blg, wis, emt, cli, trj, prp>>

\* leaving the with block of line 146
WgxClose ==
    /\ wgx.pc = "close"
    /\ wgx' = [wgx EXCEPT !.pc = "returned", !.closed = TRUE]
    /\ UNCHANGED <<lat, blg, wis, emt, cli, trj, prp>>

(***************************************************************************)
(* initial_state.py: load_label_to_species, write_initial_state_from_grid  *)
(***************************************************************************)
\* an optional argument: None, or a value
None == [isNone |-> TRUE]
Some(v) == [isNone |-> FALSE, val |-> v]

\* label_to_species dictionaries passed by the caller (the empty one included)
LabelMaps ==
    { (1 :> "mw*"),
      (0 :> "v*") @@ (1 :> "mw*"),
      (1 :> "mw*") @@ (10 :> "mem*") @@ (100 :> "tma*"),
      <<>> }

\* mapping files, as the (label, species) entries of their lines that are
\* neither blank nor comments: no entry, a label given twice, three labels
MappingFiles ==
    { <<>>,
      << <<1, "mw*">>, <<1, "mem*">> >>,
      << <<1, "mw*">>, <<3, "mem*">>, <<4, "tma*">> >> }

RECURSIVE load_entries(_, _)
\* the loop of lines 20-29: mapping[lab] = species, a later line replacing an
\* earlier one
load_entries(entries, mapping) ==
    IF entries = <<>> THEN mapping
    ELSE load_entries(Tail(entries), (entries[1][1] :> entries[1][2]) @@ mapping)

load_label_to_species_lenient(entries) ==
    [raises |-> FALSE, mapping |-> load_entries(entries, <<>>)]

\* load_label_to_species, lines 18-32; an empty mapping raises ValueError
load_label_to_species(entries) ==
    LET mapping == load_entries(entries, <<>>)
    IN  [raises |-> DOMAIN mapping = {}, mapping |-> mapping]

\* line.split(), line 100: the whitespace-separated tokens of a line (the
\* count line has one, the blank line none, a data line four)
split(line) == line.vals

site_id_of_line_number(line_number) == line_number

\* site_id = line_number - 1, line 113 (line_number counts from 0)
site_id_of(line_number) == line_number - 1

\* state of a call write_initial_state_from_grid(grid_xyz, outfile,
\* label_to_species, mapping_file, fh); grid holds the lines of grid_xyz
WisInit(grid_exists, grid, label_to_species, mapping_file, fhGiven) ==
    [ pc               |-> "args",
      grid_exists      |-> grid_exists,   \* grid_xyz names an existing file
      grid             |-> grid,
      label_to_species |-> label_to_species,
      mapping_file     |-> mapping_file,
      fhGiven          |-> fhGiven,
      need_close       |-> FALSE,
      opened           |-> FALSE,     \* open(outfile, "w") was called
      closed           |-> FALSE,     \* fh.close() was called
      out              |-> <<>>,      \* the lines written to f
      line_number      |-> 0,         \* index of the next line of g
      exc              |-> "none" ]

\* nothing of write_initial_state_from_grid is running
WisIdle == [WisInit(FALSE, <<>>, None, None, FALSE) EXCEPT !.pc = "idle"]

\* the argument combinations of a call
WisArguments ==
    ({Some(m) : m \in LabelMaps} \X {None})
        \cup ({None} \X ({None} \cup {Some(f) : f \in MappingFiles}))

\* a call on the grid file that write_grid_xyz has written and closed, or on
\* a path that names no file
WisCall ==
    /\ wis.pc = "idle"
    /\ wgx.pc = "returned"
    /\ \E a \in WisArguments, fhGiven \in BOOLEAN, grid_exists \in BOOLEAN :
          wis' = WisInit(grid_exists, IF grid_exists THEN wgx.out ELSE <<>>,
                         a[1], a[2], fhGiven)
    /\ UNCHANGED <<lat, blg, wgx, emt, cli, trj, prp>>

\* lines 78-83
WisArgs ==
    /\ wis.pc = "args"
    /\ wis' = IF ~wis.label_to_species.isNone
              THEN [wis EXCEPT !.pc = "open"]
              ELSE IF wis.mapping_file.isNone
              THEN [wis EXCEPT !.pc = "raised", !.exc = "ValueError"]
              ELSE LET loaded == load_label_to_species(wis.mapping_file.val)
                   IN  IF loaded.raises
                       THEN [wis EXCEPT !.pc = "raised", !.exc = "ValueError"]
                       ELSE [wis EXCEPT !.pc = "open",
                                        !.label_to_species = Some(loaded.mapping)]
    /\ UNCHANGED <<lat, blg, wgx, emt, cli, trj, prp>>

\* lines 85-88
WisOpen ==
    /\ wis.pc = "open"
    /\ wis' = IF ~wis.fhGiven
              THEN [wis EXCEPT !.pc = "header", !.opened = TRUE, !.need_close = TRUE]
              ELSE [wis EXCEPT !.pc = "header"]
    /\ UNCHANGED <<lat, blg, wgx, emt, cli, trj, prp>>

\* lines 91-94: the first line, and the grid file is opened; open() raises
\* FileNotFoundError if there is no such file
WisHeader ==
    /\ wis.pc = "header"
    /\ wis' = IF wis.grid_exists
              THEN [wis EXCEPT !.out = Append(wis.out, Line("initial_state", <<>>)),
                               !.line_number = 0,
                               !.pc = "read"]
              ELSE [wis EXCEPT !.out = Append(wis.out, Line("initial_state", <<>>)),
                               !.exc = "FileNotFoundError",
                               !.pc = "finally"]
    /\ UNCHANGED <<lat, blg, wgx, emt, cli, trj, prp>>

\* one iteration of the loop of lines 97-114
WisLine ==
    /\ wis.pc = "read"
    /\ wis.line_number < Len(wis.grid)
    /\ LET line_number == wis.line_number
           parts == split(wis.grid[line_number + 1])
           next  == [wis EXCEPT !.line_number = line_number + 1]
       IN  wis' = IF line_number < 2 THEN next
                  ELSE IF parts = <<>> THEN next
                  ELSE IF parts[1] \notin DOMAIN wis.label_to_species.val THEN next
                  ELSE [next EXCEPT !.out = Append(wis.out,
                           Line("seed_on_sites",
                                << wis.label_to_species.val[parts[1]],
                                   site_id_of(line_number) >>))]
    /\ UNCHANGED <<lat, blg, wgx, emt, cli, trj, prp>>

\* the grid file is exhausted; line 116
WisFooter ==
    /\ wis.pc = "read"
    /\ wis.line_number = Len(wis.grid)
    /\ wis' = [wis EXCEPT !.out = Append(wis.out, Line("end_initial_state", <<>>)),
                          !.pc = "finally"]
    /\ UNCHANGED <<lat, blg, wgx, emt, cli, trj, prp>>

\* lines 117-119
WisFinally ==
    /\ wis.pc = "finally"
    /\ wis' = [wis EXCEPT !.closed = wis.need_close,
                          !.pc = IF wis.exc = "none" THEN "returned" ELSE "raised"]
    /\ UNCHANGED <<lat, blg, wgx, emt, cli, trj, prp>>

(***************************************************************************)
(* simulation.py, mechanism.py, energetics.py: write_simulation_input,     *)
(* write_degradation_mechanism, write_uniform_energetics                   *)
(***************************************************************************)
\* the three emitters
EmtFunctions == {"write_simulation_input", "write_degradation_mechanism",
                 "write_uniform_energetics"}

\* the lengths of gas_names, gas_energies, gas_weights, gas_fracs,
\* surf_species and surf_dent in a call of write_simulation_input: the
\* defaults, one-element and empty sequences, and two mismatches
SimLengths ==
    { <<3, 3, 3, 3, 4, 4>>, <<1, 1, 1, 1, 1, 1>>, <<0, 0, 0, 0, 0, 0>>,
      <<3, 2, 3, 3, 4, 4>>, <<3, 3, 3, 3, 4, 3>> }

\* the guards of lines 34 and 36 of simulation.py
sim_lengths_invalid(lens) ==
    \/ ~(lens[2] = lens[3] /\ lens[3] = lens[4] /\ lens[4] = lens[1])
    \/ lens[6] # lens[5]

\* the f.write calls a complete run makes: simulation.py has 26 outside its
\* loops, 4 loops over the gas species and 2 over the surface species;
\* mechanism.py has 63 and energetics.py 60
n_writes(fn, lens) ==
    IF fn = "write_simulation_input" THEN 26 + 4 * lens[1] + 2 * lens[5]
    ELSE IF fn = "write_degradation_mechanism" THEN 63
    ELSE 60

\* state of a call fn(outfile, ..., fh=...)
EmtInit(fn, lens, fhGiven) ==
    [ pc         |-> "validate",
      fn         |-> fn,
      lens       |-> lens,
      fhGiven    |-> fhGiven,     \* the caller passed fh
      need_close |-> FALSE,
      opened     |-> FALSE,       \* open(outfile, "w") was called
      closed     |-> FALSE,       \* fh.close() was called
      written    |-> 0,           \* f.write calls completed
      exc        |-> "none" ]

\* none of the three is running
EmtIdle == [EmtInit("write_uniform_energetics", <<0, 0, 0, 0, 0, 0>>, FALSE)
               EXCEPT !.pc = "idle"]

\* simulation.py lines 30-37; the other two have nothing to validate
EmtValidate ==
    /\ emt.pc = "validate"
    /\ emt' = IF emt.fn = "write_simulation_input" /\ sim_lengths_invalid(emt.lens)
              THEN [emt EXCEPT !.pc = "raised", !.exc = "ValueError"]
              ELSE [emt EXCEPT !.pc = "open"]
    /\ UNCHANGED <<lat, blg, wgx, wis, cli, trj, prp>>

\* simulation.py lines 39-42, mechanism.py lines 23-26, energetics.py lines
\* 36-39
EmtOpen ==
    /\ emt.pc = "open"
    /\ emt' = IF ~emt.fhGiven
              THEN [emt EXCEPT !.pc = "write", !.opened = TRUE, !.need_close = TRUE]
              ELSE [emt EXCEPT !.pc = "write"]
    /\ UNCHANGED <<lat, blg, wgx, wis, cli, trj, prp>>

\* the next f.write of the try block succeeds
EmtWrite ==
    /\ emt.pc = "write"
    /\ emt.written < n_writes(emt.fn, emt.lens)
    /\ emt' = [emt EXCEPT !.written = emt.written + 1,
                          !.pc = IF emt.written + 1 = n_writes(emt.fn, emt.lens)
                                 THEN "finally" ELSE "write"]
    /\ UNCHANGED <<lat, blg, wgx, wis, cli, trj, prp>>

\* the next f.write of the try block raises OSError (full disk, closed handle)
EmtWriteError ==
    /\ emt.pc = "write"
    /\ emt.written < n_writes(emt.fn, emt.lens)
    /\ emt' = [emt EXCEPT !.exc = "OSError", !.pc = "finally"]
    /\ UNCHANGED <<lat, blg, wgx, wis, cli, trj, prp>>

EmtFinally_leaking_on_error ==
    /\ emt.pc = "finally"
    /\ emt' = [emt EXCEPT !.closed = emt.need_close /\ emt.exc = "none",
                          !.pc = IF emt.exc = "none" THEN "returned" ELSE "raised"]
    /\ UNCHANGED <<lat, blg, wgx, wis, cli, trj, prp>>

\* the finally clause: simulation.py lines 93-95, mechanism.py lines 100-102,
\* energetics.py lines 114-116
EmtFinally ==
    /\ emt.pc = "finally"
    /\ emt' = [emt EXCEPT !.closed = emt.need_close,
                          !.pc = IF emt.exc = "none" THEN "returned" ELSE "raised"]
    /\ UNCHANGED <<lat, blg, wgx, wis, cli, trj, prp>>

(***************************************************************************)
(* cli_zacros_prepare_run.py and cli_zacros_inputs.py                      *)
(***************************************************************************)
Max(S) == CHOOSE m \in S : \A o \in S : o <= m

\* the tokens of the data lines of a grid file: the lines after the first
\* two that are not blank (lines 17-23)
data_parts(lines) ==
    SelectSeq([k \in 1..(Len(lines) - 2) |-> split(lines[k + 2])],
              LAMBDA parts : parts # <<>>)

infer_grid_shape_max_index(lines) ==
    LET d == data_parts(lines)
    IN  [raises |-> d = <<>>,
         shape  |-> IF d = <<>> THEN <<0, 0, 0>>
                    ELSE << Max({d[k][2] : k \in 1..Len(d)}),
                            Max({d[k][3] : k \in 1..Len(d)}),
                            Max({d[k][4] : k \in 1..Len(d)}) >>]

\* _infer_grid_shape, lines 13-30; max() of an empty list raises ValueError
infer_grid_shape(lines) ==
    LET d == data_parts(lines)
    IN  [raises |-> d = <<>>,
         shape  |-> IF d = <<>> THEN <<0, 0, 0>>
                    ELSE << Max({d[k][2] : k \in 1..Len(d)}) + 1,
                            Max({d[k][3] : k \in 1..Len(d)}) + 1,
                            Max({d[k][4] : k \in 1..Len(d)}) + 1 >>]

\* the input files of a seed directory
FileNames == {"lattice_input.dat", "state_input.dat", "simulation_input.dat",
              "mechanism_input.dat", "energetics_input.dat"}

\* the files each program writes (prepare_run lines 112-116, inputs lines
\* 66-67)
cli_files(prog) ==
    IF prog = "prepare_run" THEN FileNames
    ELSE {"simulation_input.dat", "mechanism_input.dat"}

\* a seed directory before the run: the files in S exist
Dir(S) == [n \in FileNames |-> IF n \in S THEN "prior" ELSE "absent"]

\* seed directories found by a run: empty or missing, complete, as left by
\* memkmc-zacros-inputs, and with a lattice file only
PriorDirs ==
    { Dir({}), Dir(FileNames),
      Dir({"simulation_input.dat", "mechanism_input.dat"}),
      Dir({"lattice_input.dat"}) }

SeedIds == {101, 102}

\* the seeds given on the command line
SeedLists == { <<101, 102>>, <<102>> }

\* write_cubic_pbc_lattice(nx, ny, nz) raises: the ValueError of line 42 or
\* the RuntimeError of lines 84-87 at some site
lattice_raises(nx, ny, nz) ==
    \/ dims_invalid(nx, ny, nz)
    \/ \E ix \in 0..(nx - 1), iy \in 0..(ny - 1), iz \in 0..(nz - 1) :
          neighbor_count_bad(neighbor_ids(ix, iy, iz, nx, ny, nz))

\* state of a run of memkmc-zacros-prepare-run or memkmc-zacros-inputs
CliInit(prog, overwrite, seeds, files, grid_exists, grid, mapping) ==
    [ pc          |-> "start",
      prog        |-> prog,
      overwrite   |-> overwrite,
      seeds       |-> seeds,
      prior       |-> files,        \* the seed directories before the run
      files       |-> files,        \* files[seed][name]: absent, prior,
                                    \* written (complete) or partial
      grid_exists |-> grid_exists,
      grid        |-> grid,         \* the lines of the grid file
      mapping     |-> mapping,      \* the entries of the mapping file
      nx          |-> 0,
      ny          |-> 0,
      nz          |-> 0,
      i           |-> 0,            \* position of seed in args.seeds
      skipped     |-> {},           \* positions whose seed was skipped
      exc         |-> "none" ]

\* no CLI is running
CliIdle == [CliInit("inputs", FALSE, <<>>, [s \in SeedIds |-> Dir({})], FALSE, <<>>, <<>>)
               EXCEPT !.pc = "idle"]

\* seed of the current iteration
cli_seed(c) == c.seeds[c.i]

\* the list `existing` of lines 120-123 (inputs: the test of line 70)
existing(c) == {n \in cli_files(c.prog) : c.files[cli_seed(c)][n] # "absent"}

must_skip_if_complete(c) == ~c.overwrite /\ existing(c) = cli_files(c.prog)

\* the seed is skipped: lines 119-129, inputs lines 69-72
must_skip(c) == ~c.overwrite /\ existing(c) # {}

\* the next iteration of the loop over args.seeds, or the end of main
next_seed(c) ==
    IF c.i < Len(c.seeds) THEN [c EXCEPT !.i = c.i + 1, !.pc = "check"]
    ELSE [c EXCEPT !.pc = "done"]

\* a run on the grid file that write_grid_xyz has written, or on a missing one
CliCall ==
    /\ cli.pc = "idle"
    /\ wgx.pc = "returned"
    /\ \E prog \in {"prepare_run", "inputs"}, overwrite \in BOOLEAN,
          seeds \in SeedLists, files \in [SeedIds -> PriorDirs],
          grid_exists \in BOOLEAN, mapping \in MappingFiles :
          cli' = CliInit(prog, overwrite, seeds, files, grid_exists,
                         IF grid_exists THEN wgx.out ELSE <<>>, mapping)
    /\ UNCHANGED <<lat, blg, wgx, wis, emt, trj, prp>>

\* prepare_run lines 93-105, inputs lines 58-60; nargs="+" gives a seed
CliStart ==
    /\ cli.pc = "start"
    /\ cli' = IF cli.prog = "inputs" THEN next_seed(cli)
              ELSE IF ~cli.grid_exists
              THEN [cli EXCEPT !.pc = "raised", !.exc = "SystemExit"]
              ELSE LET inferred == infer_grid_shape(cli.grid)
                   IN  IF inferred.raises
                       THEN [cli EXCEPT !.pc = "raised", !.exc = "ValueError"]
                       ELSE next_seed([cli EXCEPT !.nx = inferred.shape[1],
                                                  !.ny = inferred.shape[2],
                                                  !.nz = inferred.shape[3]])
    /\ UNCHANGED <<lat, blg, wgx, wis, emt, trj, prp>>

\* prepare_run lines 108-129, inputs lines 63-72
CliCheck ==
    /\ cli.pc = "check"
    /\ cli' = IF must_skip(cli)
              THEN next_seed([cli EXCEPT !.skipped = cli.skipped \cup {cli.i}])
              ELSE [cli EXCEPT !.pc = IF cli.prog = "prepare_run"
                                      THEN "lattice" ELSE "simulation"]
    /\ UNCHANGED <<lat, blg, wgx, wis, emt, trj, prp>>

\* line 132: write_cubic_pbc_lattice(nx, ny, nz, outfile=lattice_path); a
\* RuntimeError leaves the file it opened and ends the run
CliLattice ==
    /\ cli.pc = "lattice"
    /\ cli' = IF dims_invalid(cli.nx, cli.ny, cli.nz)
              THEN [cli EXCEPT !.pc = "raised", !.exc = "ValueError"]
              ELSE IF lattice_raises(cli.nx, cli.ny, cli.nz)
              THEN [cli EXCEPT !.pc = "raised", !.exc = "RuntimeError",
                               !.files[cli_seed(cli)]["lattice_input.dat"] = "partial"]
              ELSE [cli EXCEPT !.pc = "state",
                               !.files[cli_seed(cli)]["lattice_input.dat"] = "written"]
    /\ UNCHANGED <<lat, blg, wgx, wis, emt, trj, prp>>

\* lines 136-140: write_initial_state_from_grid(grid_path, state_path,
\* mapping_file=mapping_path); a mapping file without entries raises
\* ValueError before the output is opened
CliState ==
    /\ cli.pc = "state"
    /\ cli' = IF load_label_to_species(cli.mapping).raises
              THEN [cli EXCEPT !.pc = "raised", !.exc = "ValueError"]
              ELSE [cli EXCEPT !.pc = "simulation",
                               !.files[cli_seed(cli)]["state_input.dat"] = "written"]
    /\ UNCHANGED <<lat, blg, wgx, wis, emt, trj, prp>>

\* prepare_run lines 144-147, inputs lines 74-77
CliSimulation ==
    /\ cli.pc = "simulation"
    /\ cli' = [cli EXCEPT !.pc = "mechanism",
                          !.files[cli_seed(cli)]["simulation_input.dat"] = "written"]
    /\ UNCHANGED <<lat, blg, wgx, wis, emt, trj, prp>>

\* prepare_run lines 151-157, inputs lines 78-88
CliMechanism ==
    /\ cli.pc = "mechanism"
    /\ LET done == [cli EXCEPT !.files[cli_seed(cli)]["mechanism_input.dat"] = "written"]
       IN  cli' = IF cli.prog = "prepare_run"
                  THEN [done EXCEPT !.pc = "energetics"]
                  ELSE next_seed(done)
    /\ UNCHANGED <<lat, blg, wgx, wis, emt, trj, prp>>

\* prepare_run lines 161-170
CliEnergetics ==
    /\ cli.pc = "energetics"
    /\ cli' = next_seed([cli EXCEPT
                           !.files[cli_seed(cli)]["energetics_input.dat"] = "written"])
    /\ UNCHANGED <<lat, blg, wgx, wis, emt, trj, prp>>

(***************************************************************************)
(* lammps.py: read_lammpstrj                                               *)
(***************************************************************************)
\* what a frame of the file yields: its box and the types of its atoms
FrameData == { [lx |-> 1, types |-> <<1>>], [lx |-> 2, types |-> <<1, 2>>] }

\* trajectory files of well-formed frames, the empty file included
RECURSIVE FramesOfLen(_)
FramesOfLen(n) ==
    IF n = 0 THEN { <<>> }
    ELSE { Append(fs, d) : fs \in FramesOfLen(n - 1), d \in FrameData }

Trajectories == UNION { FramesOfLen(n) : n \in 0..MaxFrames }

\* the argument frame: 'last' or an integer
Last == [last |-> TRUE, k |-> 0]
Index(k) == [last |-> FALSE, k |-> k]
FrameArgs == {Last} \cup { Index(k) : k \in (0 - 2)..(MaxFrames + 1) }

\* state of a call: lines 173-174
TrjInit(frames, frame) ==
    [ pc      |-> "loop",
      frames  |-> frames,      \* the frames of the file, in file order
      arg     |-> frame,       \* the argument as passed
      frame   |-> frame,       \* the local variable frame
      n_read  |-> 0,           \* frames consumed from the file
      chosen  |-> None,
      result  |-> None,
      exc     |-> "none" ]

\* no call is running
TrjIdle == [TrjInit(<<>>, Last) EXCEPT !.pc = "idle"]

keep_frame_one_based(t, data) ==
    IF t.frame.last
    THEN [t EXCEPT !.chosen = Some(data)]
    ELSE IF t.frame.k = 1
         THEN [t EXCEPT !.pc = "returned", !.result = Some(data)]
         ELSE [t EXCEPT !.frame = Index(t.frame.k - 1)]

\* lines 237-245: keep the frame just read, return it, or count down
keep_frame(t, data) ==
    IF t.frame.last
    THEN [t EXCEPT !.chosen = Some(data)]
    ELSE IF t.frame.k = 0
         THEN [t EXCEPT !.pc = "returned", !.result = Some(data)]
         ELSE [t EXCEPT !.frame = Index(t.frame.k - 1)]

\* lines 178-245: one frame is read from the file
TrjReadFrame ==
    /\ trj.pc = "loop"
    /\ trj.n_read < Len(trj.frames)
    /\ trj' = keep_frame([trj EXCEPT !.n_read = trj.n_read + 1],
                         trj.frames[trj.n_read + 1])
    /\ UNCHANGED <<lat, blg, wgx, wis, emt, cli, prp>>

\* lines 181-182 and 247-251: the file is exhausted
TrjEndOfFile ==
    /\ trj.pc = "loop"
    /\ trj.n_read = Len(trj.frames)
    /\ trj' = IF trj.chosen.isNone
              THEN [trj EXCEPT !.pc = "raised", !.exc = "ValueError"]
              ELSE [trj EXCEPT !.pc = "returned", !.result = trj.chosen]
    /\ UNCHANGED <<lat, blg, wgx, wis, emt, cli, prp>>

(***************************************************************************)
(* properties.py: count_particles, count_grid_voxels,                      *)
(* compute_grid_fractions                                                  *)
(***************************************************************************)
RECURSIVE SeqsUpTo(_, _)
\* the lists of at most n elements of S
SeqsUpTo(S, n) ==
    IF n = 0 THEN { <<>> }
    ELSE LET shorter == SeqsUpTo(S, n - 1)
         IN  shorter \cup { Append(xs, x) : xs \in shorter, x \in S }

\* the empty dict
EmptyDict == [c \in {} |-> 0]

count_step_overwrite(by_class, cls, n) ==
    [c \in DOMAIN by_class \cup {cls} |-> IF c = cls THEN n ELSE by_class[c]]

\* by_class[cls] = by_class.get(cls, 0) + n   (lines 60 and 91)
count_step(by_class, cls, n) ==
    [c \in DOMAIN by_class \cup {cls} |->
        IF c = cls THEN Get(by_class, cls, 0) + n ELSE by_class[c]]

\* class_to_int mappings in insertion order: as build_label_grid returns
\* them (one with the class "void" renumbered) and one with a shared label
ClassToInts ==
    { << <<"void", 0>>, <<"polymer", 1>>, <<"tma", 2>>, <<"water", 3>> >>,
      << <<"void", 0>>, <<"water", 1>> >>,
      << <<"void", 2>>, <<"a", 1>> >>,
      << <<"water", 1>>, <<"tma", 1>> >> }

\* labels found in a grid
LabelValues == 0..3

RECURSIVE int_to_class_of(_)
\* {v: k for k, v in class_to_int.items()}: the last class of a label wins
\* (line 86)
int_to_class_of(items) ==
    IF items = <<>> THEN EmptyDict
    ELSE LET n    == Len(items)
             rest == int_to_class_of(SubSeq(items, 1, n - 1))
         IN  [v \in DOMAIN rest \cup {items[n][2]} |->
                 IF v = items[n][2] THEN items[n][1] ELSE rest[v]]

\* np.unique(labels, return_counts=True): the sorted distinct labels and
\* how often each occurs (line 88)
unique_of(labels) == SortedSeq(ToSet(labels))
counts_of(labels) ==
    [k \in 1..Len(unique_of(labels)) |->
        Cardinality({i \in 1..Len(labels) : labels[i] = unique_of(labels)[k]})]

\* the GridCounts objects handed to compute_grid_fractions: those that
\* count_grid_voxels returns and others a caller can construct
GridClasses == {"water", "tma", "polymer"}
Dicts == UNION { [S -> 0..MaxVoxels] : S \in SUBSET GridClasses }
GridCountsArgs == { [total |-> t, by_class |-> d] : t \in (0 - 1)..MaxVoxels, d \in Dicts }

\* a float quotient n / d of two ints, and the literal 0.0
Quotient(n, d) == [num |-> n, den |-> d]
Zero == [num |-> 0, den |-> 1]

compute_grid_fractions_same_den(grid_counts) ==
    LET total     == grid_counts.total
        n_water_g == Get(grid_counts.by_class, "water", 0)
        n_tma_g   == Get(grid_counts.by_class, "tma", 0)
        fv_den    == total - n_tma_g
    IN  [ raises |-> total <= 0,
          fv     |-> IF fv_den > 0 THEN Quotient(n_water_g, fv_den) ELSE Zero,
          vwu    |-> IF fv_den > 0 THEN Quotient(n_water_g, fv_den) ELSE Zero ]

\* compute_grid_fractions, lines 105-127
compute_grid_fractions(grid_counts) ==
    LET total     == grid_counts.total
        n_water_g == Get(grid_counts.by_class, "water", 0)
        n_tma_g   == Get(grid_counts.by_class, "tma", 0)
        fv_den    == total - n_tma_g
        vwu_den   == total - n_water_g
    IN  [ raises |-> total <= 0,
          fv     |-> IF fv_den > 0 THEN Quotient(n_water_g, fv_den) ELSE Zero,
          vwu    |-> IF vwu_den > 0 THEN Quotient(n_water_g, vwu_den) ELSE Zero ]

\* state of a call of one of the three functions
PrpInit(fn, types, type_to_class, labels, class_to_int, grid_counts) ==
    [ pc            |-> "call",
      fn            |-> fn,
      types         |-> types,
      type_to_class |-> type_to_class,
      labels        |-> labels,         \* the grid, flattened
      class_to_int  |-> class_to_int,
      grid_counts   |-> grid_counts,
      int_to_class  |-> EmptyDict,
      unique        |-> <<>>,
      counts        |-> <<>>,
      i             |-> 0,              \* loop iterations done
      total         |-> 0,
      by_class      |-> EmptyDict,
      fv            |-> Zero,
      vwu           |-> Zero,
      exc           |-> "none" ]

NoGridCounts == [total |-> 0, by_class |-> EmptyDict]

PrpCalls ==
    { PrpInit("count_particles", types, ttc, <<>>, <<>>, NoGridCounts) :
          types \in SeqsUpTo(TypeIds, MaxParticles), ttc \in TypeMaps }
    \cup
    { PrpInit("count_grid_voxels", <<>>, EmptyDict, labels, cti, NoGridCounts) :
          labels \in SeqsUpTo(LabelValues, MaxVoxels), cti \in ClassToInts }
    \cup
    { PrpInit("compute_grid_fractions", <<>>, EmptyDict, <<>>, <<>>, gc) :
          gc \in GridCountsArgs }

\* no call is running
PrpIdle == [PrpInit("count_particles", <<>>, EmptyDict, <<>>, <<>>, NoGridCounts)
               EXCEPT !.pc = "idle"]

\* count_particles lines 56-57
PrpParticlesStart ==
    /\ prp.pc = "call"
    /\ prp.fn = "count_particles"
    /\ prp' = [prp EXCEPT !.pc = "loop", !.total = Len(prp.types),
                          !.by_class = EmptyDict]
    /\ UNCHANGED <<lat, blg, wgx, wis, emt, cli, trj>>

\* lines 58-60: one particle
PrpParticle ==
    /\ prp.pc = "loop"
    /\ prp.fn = "count_particles"
    /\ prp.i < Len(prp.types)
    /\ LET cls == Get(prp.type_to_class, prp.types[prp.i + 1], "unknown")
       IN  prp' = [prp EXCEPT !.i = prp.i + 1,
                              !.by_class = count_step(prp.by_class, cls, 1)]
    /\ UNCHANGED <<lat, blg, wgx, wis, emt, cli, trj>>

\* line 61
PrpParticlesReturn ==
    /\ prp.pc = "loop"
    /\ prp.fn = "count_particles"
    /\ prp.i = Len(prp.types)
    /\ prp' = [prp EXCEPT !.pc = "returned"]
    /\ UNCHANGED <<lat, blg, wgx, wis, emt, cli, trj>>

\* count_grid_voxels lines 82-88
PrpVoxelsStart ==
    /\ prp.pc = "call"
    /\ prp.fn = "count_grid_voxels"
    /\ prp' = [prp EXCEPT !.pc = "loop", !.total = Len(prp.labels),
                          !.by_class = EmptyDict,
                          !.int_to_class = int_to_class_of(prp.class_to_int),
                          !.unique = unique_of(prp.labels),
                          !.counts = counts_of(prp.labels)]
    /\ UNCHANGED <<lat, blg, wgx, wis, emt, cli, trj>>

\* lines 89-91: one distinct label
PrpVoxelLabel ==
    /\ prp.pc = "loop"
    /\ prp.fn = "count_grid_voxels"
    /\ prp.i < Len(prp.unique)
    /\ LET cls == Get(prp.int_to_class, prp.unique[prp.i + 1], "unknown")
       IN  prp' = [prp EXCEPT !.i = prp.i + 1,
                              !.by_class = count_step(prp.by_class, cls,
                                                      prp.counts[prp.i + 1])]
    /\ UNCHANGED <<lat, blg, wgx, wis, emt, cli, trj>>

\* line 93
PrpVoxelsReturn ==
    /\ prp.pc = "loop"
    /\ prp.fn = "count_grid_voxels"
    /\ prp.i = Len(prp.unique)
    /\ prp' = [prp EXCEPT !.pc = "returned"]
    /\ UNCHANGED <<lat, blg, wgx, wis, emt, cli, trj>>

\* compute_grid_fractions lines 114-127
PrpFractions ==
    /\ prp.pc = "call"
    /\ prp.fn = "compute_grid_fractions"
    /\ LET r == compute_grid_fractions(prp.grid_counts)
       IN  prp' = IF r.raises
                  THEN [prp EXCEPT !.pc = "raised", !.exc = "ValueError"]
                  ELSE [prp EXCEPT !.pc = "returned", !.fv = r.fv, !.vwu = r.vwu]
    /\ UNCHANGED <<lat, blg, wgx, wis, emt, cli, trj>>

(***************************************************************************)
(* Specification of one call of write_cubic_pbc_lattice.                   *)
(***************************************************************************)
InitLattice ==
    /\ lat \in {LatInit(nx, ny, nz, g) : nx \in Dims, ny \in Dims, nz \in Dims, g \in BOOLEAN}
    /\ blg = BlgIdle
    /\ wgx = WgxIdle
    /\ wis = WisIdle
    /\ emt = EmtIdle
    /\ cli = CliIdle
    /\ trj = TrjIdle
    /\ prp = PrpIdle

NextLattice ==
    \/ LatValidate
    \/ LatOpen
    \/ LatHeader
    \/ LatSite
    \/ LatFooter
    \/ LatFinally

SpecLattice == InitLattice /\ [][NextLattice]_vars

(***************************************************************************)
(* Properties of write_cubic_pbc_lattice.                                  *)
(***************************************************************************)
\* the site rows written so far, in file order
LatRows == SelectSeq(lat.out, LAMBDA l : l.tag = "site")

RowId(r) == r.vals[1]
RowFracs(r) == SubSeq(r.vals, 2, 4)
RowCount(r) == r.vals[5]
RowNbrs(r) == SubSeq(r.vals, 6, Len(r.vals))

LatNSitesDeclared == {l.vals[1] : l \in {m \in ToSet(lat.out) : m.tag = "n_sites"}}

LatAllAtLeast3 == lat.nx >= 3 /\ lat.ny >= 3 /\ lat.nz >= 3
LatDegenerate ==
    /\ lat.nx >= 1 /\ lat.ny >= 1 /\ lat.nz >= 1
    /\ (lat.nx <= 2 \/ lat.ny <= 2 \/ lat.nz <= 2)

\* inverse of the row-major formula id = ix + iy*nx + iz*nx*ny + 1
id_to_coord(id, nx, ny, nz) ==
    << (id - 1) % nx, ((id - 1) \div nx) % ny, (id - 1) \div (nx * ny) >>

\* C1: for nx, ny, nz >= 3 the call raises nothing, every site row lists
\* exactly 6 pairwise distinct neighbour IDs, and on return there are
\* nx*ny*nz site rows and the header declares n_sites = nx*ny*nz.
C1_SixNeighboursAllSites ==
    LatAllAtLeast3 =>
        /\ lat.exc = "none"
        /\ \A k \in 1..Len(LatRows) :
              /\ RowCount(LatRows[k]) = 6
              /\ Len(RowNbrs(LatRows[k])) = 6
              /\ Cardinality(ToSet(RowNbrs(LatRows[k]))) = 6
        /\ lat.pc = "returned" =>
              /\ Len(LatRows) = lat.nx * lat.ny * lat.nz
              /\ LatNSitesDeclared = {lat.nx * lat.ny * lat.nz}

C1_Witness ==
    /\ lat.pc = "returned"
    /\ lat.nx = 3 /\ lat.ny = 4 /\ lat.nz = 3
    /\ Len(LatRows) = 36

\* C2: for nx, ny, nz >= 3 the emitted neighbour relation is symmetric: if B
\* is in the neighbour list of site A, there is a row for B and it lists A.
C2_NeighbourSymmetric ==
    (LatAllAtLeast3 /\ lat.pc = "returned") =>
        \A a \in 1..Len(LatRows) :
            \A b \in ToSet(RowNbrs(LatRows[a])) :
                \E k \in 1..Len(LatRows) :
                    /\ RowId(LatRows[k]) = b
                    /\ RowId(LatRows[a]) \in ToSet(RowNbrs(LatRows[k]))

C2_Witness ==
    /\ lat.pc = "returned"
    /\ lat.nx = 4 /\ lat.ny = 3 /\ lat.nz = 3
    /\ \E a \in 1..Len(LatRows) : 1 \in ToSet(RowNbrs(LatRows[a]))

\* C3: for positive extents with some extent 1 or 2 the call ends in the
\* RuntimeError of the 6-neighbour check: it never returns normally, and no
\* site row with fewer than 6 neighbours is written.
C3_DegenerateFails ==
    LatDegenerate =>
        /\ lat.pc \notin {"footer", "returned"}
        /\ lat.exc \in {"none", "RuntimeError"}
        /\ lat.pc = "raised" => lat.exc = "RuntimeError"
        /\ \A k \in 1..Len(LatRows) : Len(RowNbrs(LatRows[k])) >= 6

C3_Witness ==
    /\ lat.pc = "raised"
    /\ lat.exc = "RuntimeError"
    /\ lat.nx = 2 /\ lat.ny >= 3 /\ lat.nz >= 3

\* C4: with a nonpositive extent the call raises ValueError before any work:
\* no file is opened and nothing is written to any handle.
C4_NonPositiveRejected ==
    (lat.nx <= 0 \/ lat.ny <= 0 \/ lat.nz <= 0) =>
        /\ lat.pc \in {"validate", "raised"}
        /\ lat.pc = "raised" => lat.exc = "ValueError"
        /\ ~lat.opened
        /\ lat.out = <<>>

C4_Witness ==
    /\ lat.pc = "raised"
    /\ lat.exc = "ValueError"
    /\ lat.nx = 0 /\ lat.ny >= 3 /\ lat.nz >= 3
    /\ lat.fhGiven

\* C5: for valid extents every in-range (ix,iy,iz) gets an ID in
\* [1, nx*ny*nz] from which the inverse formula recovers (ix,iy,iz), and
\* every ID in [1, nx*ny*nz] is the ID of its inverse image.
C5_IdRoundTrip ==
    (lat.pc \in {"loop", "footer"}) =>
        LET nx == lat.nx
            ny == lat.ny
            nz == lat.nz
        IN  /\ \A ix \in 0..(nx - 1), iy \in 0..(ny - 1), iz \in 0..(nz - 1) :
                  /\ coord_to_id(ix, iy, iz, nx, ny, nz) \in 1..(nx * ny * nz)
                  /\ id_to_coord(coord_to_id(ix, iy, iz, nx, ny, nz), nx, ny, nz)
                       = <<ix, iy, iz>>
            /\ \A id \in 1..(nx * ny * nz) :
                  LET c == id_to_coord(id, nx, ny, nz)
                  IN  /\ c[1] \in 0..(nx - 1) /\ c[2] \in 0..(ny - 1) /\ c[3] \in 0..(nz - 1)
                      /\ coord_to_id(c[1], c[2], c[3], nx, ny, nz) = id
            /\ \A k \in 1..Len(LatRows) : RowId(LatRows[k]) \in 1..(nx * ny * nz)

C5_Witness ==
    /\ lat.pc = "footer"
    /\ lat.nx = 3 /\ lat.ny = 4 /\ lat.nz = 4
    /\ RowId(LatRows[Len(LatRows)]) = 48

\* C6: the k-th site row written carries site ID k and the coordinates of
\* the k-th index triple in the order iz outermost, iy middle, ix innermost;
\* on return the IDs are exactly 1..nx*ny*nz.
C6_RowOrder ==
    /\ \A k \in 1..Len(LatRows) :
          /\ RowId(LatRows[k]) = k
          /\ RowFracs(LatRows[k]) =
                << Frac6((k - 1) % lat.nx, lat.nx),
                   Frac6(((k - 1) \div lat.nx) % lat.ny, lat.ny),
                   Frac6((k - 1) \div (lat.nx * lat.ny), lat.nz) >>
    /\ lat.pc = "returned" => Len(LatRows) = lat.nx * lat.ny * lat.nz

C6_Witness ==
    /\ lat.pc = "returned"
    /\ lat.nx = 3 /\ lat.ny = 3 /\ lat.nz = 4
    /\ RowFracs(LatRows[10]) = <<0, 0, 250000>>

(***************************************************************************)
(* Specification of one call of build_label_grid.                          *)
(***************************************************************************)
InitGrid ==
    /\ blg \in {BlgInit(g[1], g[2], m) : g \in Geometries, m \in TypeMaps}
    /\ lat = LatIdle
    /\ wgx = WgxIdle
    /\ wis = WisIdle
    /\ emt = EmtIdle
    /\ cli = CliIdle
    /\ trj = TrjIdle
    /\ prp = PrpIdle

NextGrid ==
    \/ BlgSetup
    \/ BlgAccumulate
    \/ BlgEndOfInput
    \/ BlgLabel

SpecGrid == InitGrid /\ [][NextGrid]_vars

(***************************************************************************)
(* Specification of one call of write_grid_xyz.                            *)
(***************************************************************************)
InitXyz ==
    /\ \E nx \in 1..MaxDim, ny \in 1..MaxDim, nz \in 1..MaxDim :
          wgx \in { WgxInit(CodedGrid(nx, ny, nz), nx, ny, nz),
                    WgxInit(ParityGrid(nx, ny, nz), nx, ny, nz) }
    /\ lat = LatIdle
    /\ blg = BlgIdle
    /\ wis = WisIdle
    /\ emt = EmtIdle
    /\ cli = CliIdle
    /\ trj = TrjIdle
    /\ prp = PrpIdle

NextXyz ==
    \/ WgxOpen
    \/ WgxHeader
    \/ WgxLine
    \/ WgxClose

SpecXyz == InitXyz /\ [][NextXyz]_vars

(***************************************************************************)
(* Properties of write_grid_xyz.                                           *)
(***************************************************************************)
\* the N-th data line, after the two header lines
WgxData(N) == wgx.out[N + 2].vals

\* C7: the N-th data line of the grid file describes the voxel (ix,iy,iz)
\* whose lattice site ID ix + iy*nx + iz*nx*ny + 1 is N and carries
\* labels[ix,iy,iz]; the two lines before the data are the count and a blank
\* line, and on return there are nx*ny*nz data lines.
C7_GridOrderIsSiteOrder ==
    /\ Len(wgx.out) >= 2 => (wgx.out[1].tag = "count" /\ wgx.out[2].tag = "blank")
    /\ \A N \in 1..(Len(wgx.out) - 2) :
          LET ix == WgxData(N)[2]
              iy == WgxData(N)[3]
              iz == WgxData(N)[4]
          IN  /\ wgx.out[N + 2].tag = "voxel"
              /\ <<ix, iy, iz>> \in Voxels(wgx.nx, wgx.ny, wgx.nz)
              /\ coord_to_id(ix, iy, iz, wgx.nx, wgx.ny, wgx.nz) = N
              /\ WgxData(N)[1] = wgx.labels[<<ix, iy, iz>>]
    /\ wgx.pc = "returned" => Len(wgx.out) - 2 = wgx.nx * wgx.ny * wgx.nz

C7_Witness ==
    /\ wgx.pc = "returned"
    /\ wgx.nx = 2 /\ wgx.ny = 3 /\ wgx.nz = 4
    /\ WgxData(9) = <<110, 0, 1, 1>>

(***************************************************************************)
(* Properties of build_label_grid.                                         *)
(***************************************************************************)
BlgClassSet == ToSet(blg.classes)

\* the voxels the labelling loop has already gone through
BlgLabelled ==
    IF blg.pc = "returned" THEN Voxels(blg.nx, blg.ny, blg.nz)
    ELSE IF blg.pc = "label"
    THEN { v \in Voxels(blg.nx, blg.ny, blg.nz) :
             \/ v[1] < blg.ix
             \/ v[1] = blg.ix /\ v[2] < blg.iy
             \/ v[1] = blg.ix /\ v[2] = blg.iy /\ v[3] < blg.iz }
    ELSE {}

\* number of particles of class c counted in voxel v (0 if c is no class)
BlgCount(c, v) == IF c \in BlgClassSet THEN blg.counts[c][v] ELSE 0

\* C8: when "tma" is a class, every voxel with a tma count > 0 is labelled
\* class_to_int["tma"], whatever the other counts are.
C8_TmaPriority ==
    \A v \in BlgLabelled :
        ("tma" \in BlgClassSet /\ blg.counts["tma"][v] > 0)
            => blg.labels[v] = blg.class_to_int["tma"]

C8_Witness ==
    /\ blg.pc = "returned"
    /\ \E v \in Voxels(blg.nx, blg.ny, blg.nz) :
          /\ BlgCount("tma", v) = 1
          /\ BlgCount("water", v) = 2
          /\ blg.labels[v] = blg.class_to_int["tma"]

\* C9: when "water" and "polymer" are both classes and the voxel holds no
\* tma particle, the voxel is labelled water if count(water) >= count(polymer)
\* and polymer otherwise; so an empty voxel is labelled water.
C9_WaterPolymer ==
    \A v \in BlgLabelled :
        ("water" \in BlgClassSet /\ "polymer" \in BlgClassSet /\ BlgCount("tma", v) = 0)
            => blg.labels[v] =
                  IF blg.counts["water"][v] >= blg.counts["polymer"][v]
                  THEN blg.class_to_int["water"]
                  ELSE blg.class_to_int["polymer"]

C9_Witness ==
    /\ blg.pc = "returned"
    /\ {"tma", "water", "polymer"} \subseteq BlgClassSet
    /\ \E v, w \in Voxels(blg.nx, blg.ny, blg.nz) :
          /\ \A c \in BlgClassSet : blg.counts[c][v] = 0
          /\ blg.labels[v] = blg.class_to_int["water"]
          /\ blg.class_to_int["water"] # 0
          /\ blg.counts["polymer"][w] = 1 /\ blg.counts["water"][w] = 0
          /\ blg.counts["tma"][w] = 0
          /\ blg.labels[w] = blg.class_to_int["polymer"]

\* the largest count in voxel v
BlgMaxCount(v) ==
    CHOOSE m \in {blg.counts[c][v] : c \in BlgClassSet} :
        \A c \in BlgClassSet : blg.counts[c][v] <= m

\* the lexicographically smallest class among those with the largest count
BlgWinner(v) == StrMin({c \in BlgClassSet : blg.counts[c][v] = BlgMaxCount(v)})

BlgGenericCase(v) ==
    /\ ~("water" \in BlgClassSet /\ "polymer" \in BlgClassSet)
    /\ BlgCount("tma", v) = 0

\* C10: when the classes do not include both "water" and "polymer" and the
\* voxel holds no tma particle, the voxel is labelled with the class of
\* highest count, the lexicographically smallest one on a tie among nonzero
\* counts, and with void (0) if all counts are zero.
C10_GenericMajority ==
    \A v \in BlgLabelled :
        BlgGenericCase(v) =>
            blg.labels[v] = IF BlgMaxCount(v) > 0
                            THEN blg.class_to_int[BlgWinner(v)]
                            ELSE 0

\* C11: class_to_int maps "void" to 0 and the distinct class names of the
\* mapping, in lexicographic order, to 1..k; names and labels correspond one
\* to one, and no class other than void has label 0.
C11_ClassNumbering ==
    (blg.pc \in {"accumulate", "label", "returned"}) =>
        /\ blg.class_to_int["void"] = 0
        /\ BlgClassSet = {blg.type_to_class[t] : t \in DOMAIN blg.type_to_class}
        /\ \A i, j \in 1..Len(blg.classes) :
              i < j => StrLess(blg.classes[i], blg.classes[j])
        /\ \A i \in 1..Len(blg.classes) : blg.class_to_int[blg.classes[i]] = i
        /\ \A c, d \in DOMAIN blg.class_to_int :
              blg.class_to_int[c] = blg.class_to_int[d] => c = d

\* floor(l / spacing), by its defining inequalities
FloorQuot(l, spacing) ==
    CHOOSE k \in 0..l : k * spacing <= l /\ l < (k + 1) * spacing

BlgAxes ==
    { <<blg.box.lx, blg.nx, blg.binsizex>>,
      <<blg.box.ly, blg.ny, blg.binsizey>>,
      <<blg.box.lz, blg.nz, blg.binsizez>> }

\* C12: along each axis the grid has n = max(1, floor(length / spacing)) bins
\* of width length / n, so n bins span the box length; box (8,8,8) with
\* spacing 4 gives shape (2,2,2) and width 4, and an axis shorter than the
\* spacing gives 1 bin.
C12_BinExtents ==
    (blg.pc \in {"accumulate", "label", "returned"}) =>
        /\ \A a \in BlgAxes :
              /\ a[2] = IF FloorQuot(a[1], blg.spacing) >= 1
                        THEN FloorQuot(a[1], blg.spacing) ELSE 1
              /\ a[3].num * a[2] = a[1] * a[3].den
              /\ a[1] < blg.spacing => a[2] = 1
        /\ DOMAIN blg.labels # {} => DOMAIN blg.labels = Voxels(blg.nx, blg.ny, blg.nz)
        /\ (blg.box = Box(0, 0, 0, 8, 8, 8) /\ blg.spacing = 4) =>
              /\ <<blg.nx, blg.ny, blg.nz>> = <<2, 2, 2>>
              /\ \A a \in BlgAxes : a[3].num = 4 * a[3].den /\ a[3].rnd = 0

C12_Witness ==
    /\ blg.pc = "returned"
    /\ blg.box = Box(0, 0, 0, 7, 1, 1) /\ blg.spacing = 2
    /\ <<blg.nx, blg.ny, blg.nz>> = <<3, 1, 1>>
    /\ DOMAIN blg.labels = Voxels(3, 1, 1)

\* k * binsize <= d for the double binsize bs, an integer k and a distance d
AtOrBelow(k, d, bs) ==
    IF k * bs.num # d * bs.den THEN k * bs.num < d * bs.den
    ELSE k = 0 \/ (k > 0 /\ bs.rnd <= 0) \/ (k < 0 /\ bs.rnd >= 0)

\* floor(d / binsize), by its defining inequalities
FloorIndex(d, bs) ==
    LET m == ((IF d < 0 THEN -d ELSE d) * bs.den) \div bs.num + 1
    IN  CHOOSE k \in (-m)..m : AtOrBelow(k, d, bs) /\ ~AtOrBelow(k + 1, d, bs)

ExpectedVoxel(pos) ==
    << FloorIndex(pos[1] - blg.box.xlo, blg.binsizex),
       FloorIndex(pos[2] - blg.box.ylo, blg.binsizey),
       FloorIndex(pos[3] - blg.box.zlo, blg.binsizez) >>

\* the counts after the loop iteration that takes the particle (t, pos)
CountsAfter(t, pos) == accumulate(blg, t, pos).counts

\* the counts with the mapped particle (t, pos) counted in the voxel of its
\* floor indices if all three lie in the grid and in no voxel otherwise
CountedByFloor(t, pos) ==
    LET v == ExpectedVoxel(pos)
    IN  IF v \in Voxels(blg.nx, blg.ny, blg.nz)
        THEN [blg.counts EXCEPT ![blg.type_to_class[t]][v] = @ + 1]
        ELSE blg.counts

OnUpperFace(pos) ==
    \/ pos[1] - blg.box.xlo = blg.box.lx
    \/ pos[2] - blg.box.ylo = blg.box.ly
    \/ pos[3] - blg.box.zlo = blg.box.lz

BelowOrigin(pos) ==
    pos[1] < blg.box.xlo \/ pos[2] < blg.box.ylo \/ pos[3] < blg.box.zlo

\* C13 as stated: a mapped particle is counted in exactly the voxel of its
\* floor indices when these lie in the grid, and a particle on the upper box
\* face or below the origin is counted in no voxel.
C13_UpperFaceDropped ==
    (blg.pc = "accumulate") =>
        \A t \in DOMAIN blg.type_to_class, pos \in Points :
            LET after == CountsAfter(t, pos)
            IN  /\ after = CountedByFloor(t, pos)
                /\ (OnUpperFace(pos) \/ BelowOrigin(pos)) => after = blg.counts

\* on the upper face of an axis the floor index is n, unless binsize was
\* rounded up, and then it is n - 1
UpperFaceIndex(d, l, n, bs) ==
    d = l => FloorIndex(d, bs) = IF bs.rnd = 1 THEN n - 1 ELSE n

\* C13, amended: a mapped particle is counted in exactly the voxel of its
\* floor indices floor((coord - origin) / binsize) when all three lie in
\* [0, n-1] and in no voxel otherwise, never clamped; a particle below the
\* origin is dropped; on the upper face of an axis its index is n (dropped)
\* unless binsize = length / n was rounded up, and then its index is n - 1.
C13_CountedByFloorIndex ==
    (blg.pc = "accumulate") =>
        \A t \in DOMAIN blg.type_to_class, pos \in Points :
            LET after == CountsAfter(t, pos)
            IN  /\ after = CountedByFloor(t, pos)
                /\ BelowOrigin(pos) => after = blg.counts
                /\ UpperFaceIndex(pos[1] - blg.box.xlo, blg.box.lx, blg.nx, blg.binsizex)
                /\ UpperFaceIndex(pos[2] - blg.box.ylo, blg.box.ly, blg.ny, blg.binsizey)
                /\ UpperFaceIndex(pos[3] - blg.box.zlo, blg.box.lz, blg.nz, blg.binsizez)
                /\ (OnUpperFace(pos) /\ blg.binsizex.rnd # 1 /\ blg.binsizey.rnd # 1
                      /\ blg.binsizez.rnd # 1) => after = blg.counts

\* the particle (7, 0, 0) on the upper x face of the box (7, 1, 1), spacing 2,
\* has been counted in the last voxel (2, 0, 0)
C13_Witness ==
    \E tm \in TypeMaps : \E t \in DOMAIN tm :
        /\ blg = accumulate(setup(BlgInit(Box(0, 0, 0, 7, 1, 1), 2, tm)), t, <<7, 0, 0>>)
        /\ blg.binsizex.rnd = 1
        /\ blg.counts[tm[t]][<<2, 0, 0>>] = 1

\* some axis has floor(length / spacing) = 0
BlgZeroFloor == \E a \in BlgAxes : FloorQuot(a[1], blg.spacing) = 0

\* C14 as stated: a call whose spacing gives zero bins on some axis after
\* flooring fails, so it never gets past the computation of the bin numbers.
C14_ZeroBinsFails ==
    BlgZeroFloor => blg.pc \notin {"accumulate", "label", "returned"}

\* C14, amended: a call whose spacing gives zero bins on some axis after
\* flooring does not fail; each such axis gets 1 bin as wide as the axis and
\* the call goes on to count and label.
C14_ZeroBinsClampedToOne ==
    (BlgZeroFloor /\ blg.pc # "bins") =>
        /\ blg.pc \in {"accumulate", "label", "returned"}
        /\ \A a \in BlgAxes :
              FloorQuot(a[1], blg.spacing) = 0 =>
                  a[2] = 1 /\ a[3] = [num |-> a[1], den |-> 1, rnd |-> 0]

C14_Witness ==
    /\ blg.pc = "returned"
    /\ FloorQuot(blg.box.ly, blg.spacing) = 0 /\ FloorQuot(blg.box.lx, blg.spacing) = 3
    /\ blg.ny = 1 /\ blg.binsizey = [num |-> blg.box.ly, den |-> 1, rnd |-> 0]
    /\ \A v \in Voxels(3, 1, 1) : v \in DOMAIN blg.labels

\* the label grid that lines 96-131 compute from the counts of b
LabelsOf(b) ==
    [v \in Voxels(b.nx, b.ny, b.nz) |->
        Get(b.class_to_int,
            classify(b.classes, [c \in ToSet(b.classes) |-> b.counts[c][v]]), 0)]

\* what the result of the call depends on once the particles are read
ResultInputs(b) ==
    [counts |-> b.counts, classes |-> b.classes, class_to_int |-> b.class_to_int,
     shape |-> <<b.nx, b.ny, b.nz>>]

\* C15: a particle whose type has no entry in the (non-empty) mapping is
\* skipped without error: the iteration that takes it leaves the counts, the
\* classes and class_to_int as they are, so the labels returned are those of
\* the input without that particle.
C15_UnmappedDropped ==
    /\ (blg.pc = "accumulate") =>
          \A t \in TypeIds \ DOMAIN blg.type_to_class, pos \in Points :
              LET after == accumulate(blg, t, pos)
              IN  /\ after.pc = "accumulate"
                  /\ after.n_read = blg.n_read + 1
                  /\ ResultInputs(after) = ResultInputs(blg)
    /\ (blg.pc = "returned") =>
          blg.labels = LabelsOf(blg) /\ DOMAIN blg.type_to_class # {}

\* a particle of an unmapped type, lying inside the grid, has been read as the
\* only particle and the call has returned
C15_Witness ==
    /\ blg.pc = "returned"
    /\ blg.n_read = 1
    /\ \E tm \in TypeMaps : \E t \in TypeIds \ DOMAIN tm :
          accumulate(setup(BlgInit(Box(0, 0, 0, 8, 8, 8), 4, tm)), t, <<1, 1, 1>>).counts
              = blg.counts /\ blg.type_to_class = tm /\ blg.nx = 2
    /\ \A c \in DOMAIN blg.counts : \A v \in DOMAIN blg.counts[c] : blg.counts[c][v] = 0

\* the particles a call can be given
Particles == TypeIds \X Points

\* C16: the result does not depend on the order of the particles: exchanging
\* two consecutive particles anywhere in the sequence gives the same counts,
\* classes and class_to_int, hence the same labels, and the labels returned
\* are a function of these alone.
C16_OrderIndependent ==
    /\ (blg.pc = "accumulate" /\ blg.n_read + 2 <= MaxParticles) =>
          LET first == [p \in Particles |-> accumulate(blg, p[1], p[2])]
          IN  \A p, q \in Particles :
                  ResultInputs(accumulate(first[p], q[1], q[2]))
                      = ResultInputs(accumulate(first[q], p[1], p[2]))
    /\ (blg.pc \in {"label", "returned"}) =>
          \A v \in DOMAIN blg.labels :
              (blg.pc = "returned" \/ blg.labels[v] # 0) => blg.labels[v] = LabelsOf(blg)[v]

\* a water and a polymer particle have been counted in the same voxel
C16_Witness ==
    /\ blg.pc = "returned"
    /\ blg.n_read = 2
    /\ {"water", "polymer"} \subseteq BlgClassSet
    /\ blg.counts["water"][<<0, 0, 0>>] = 1 /\ blg.counts["polymer"][<<0, 0, 0>>] = 1
    /\ blg.labels[<<0, 0, 0>>] = blg.class_to_int["water"]

\* the six candidate neighbour IDs of the site with the given ID
CandidatesOf(id) ==
    LET c == id_to_coord(id, lat.nx, lat.ny, lat.nz)
    IN  ToSet(neighbor_list(c[1], c[2], c[3], lat.nx, lat.ny, lat.nz))

\* C17: in every site row written the neighbour IDs are the candidate IDs of
\* the site without repetition, in strictly ascending order, and the count
\* written before them is their number, 6.
C17_NeighboursSortedDeduped ==
    \A k \in 1..Len(LatRows) :
        LET nb == RowNbrs(LatRows[k])
        IN  /\ \A i, j \in 1..Len(nb) : i < j => nb[i] < nb[j]
            /\ ToSet(nb) = CandidatesOf(RowId(LatRows[k]))
            /\ RowCount(LatRows[k]) = Len(nb)
            /\ RowCount(LatRows[k]) = 6

C17_Witness ==
    /\ lat.pc = "returned"
    /\ lat.nx = 3 /\ lat.ny = 3 /\ lat.nz = 3
    /\ RowNbrs(LatRows[14]) = <<5, 11, 13, 15, 17, 23>>
    /\ RowNbrs(LatRows[1]) = <<2, 3, 4, 7, 10, 19>>

LatEndMarkers ==
    {l \in ToSet(lat.out) : l.tag \in {"end_lattice_structure", "end_lattice"}}

\* C18: when the 6-neighbour check fails the call is aborted at the first
\* offending site in iteration order and the error names it: the rows written
\* are those of the sites before it, all with 6 neighbours, no row of that or
\* a later site is written, and neither end marker is written.
C18_AbortAtFirstOffender ==
    (lat.exc = "RuntimeError") =>
        /\ lat.pc \in {"finally", "raised"}
        /\ lat.exc_site = Len(LatRows) + 1
        /\ lat.exc_site = coord_to_id(lat.ix, lat.iy, lat.iz, lat.nx, lat.ny, lat.nz)
        /\ Cardinality(CandidatesOf(lat.exc_site)) # 6
        /\ \A k \in 1..Len(LatRows) :
              /\ RowId(LatRows[k]) = k
              /\ Cardinality(CandidatesOf(k)) = 6
        /\ Len(lat.out) = 6 + Len(LatRows)
        /\ LatEndMarkers = {}

C18_Witness ==
    /\ lat.pc = "raised"
    /\ lat.exc = "RuntimeError"
    /\ lat.nx = 3 /\ lat.ny = 2 /\ lat.nz = 3
    /\ lat.exc_site = 1
    /\ LatRows = <<>>
    /\ Len(lat.out) = 6

\* C19 as stated: a call with an empty particle sequence fails before any
\* voxel is labelled, so it never enters the labelling loops.
C19_ZeroParticlesFails ==
    (blg.n_read = 0) => blg.pc \notin {"label", "returned"}

\* the label of a voxel without particles: water when water and polymer are
\* both classes, void otherwise
EmptyVoxelLabel ==
    IF {"water", "polymer"} \subseteq BlgClassSet
    THEN blg.class_to_int["water"]
    ELSE blg.class_to_int["void"]

\* C19, amended: a call with an empty particle sequence does not fail; it
\* labels every voxel as an empty voxel (water when water and polymer are
\* both classes, void otherwise) and returns.
C19_ZeroParticlesAllEmpty ==
    (blg.n_read = 0) =>
        /\ blg.pc \in {"bins", "accumulate", "label", "returned"}
        /\ blg.pc = "returned" =>
              /\ DOMAIN blg.labels = Voxels(blg.nx, blg.ny, blg.nz)
              /\ \A v \in DOMAIN blg.labels : blg.labels[v] = EmptyVoxelLabel

C19_Witness ==
    /\ blg.pc = "returned"
    /\ blg.n_read = 0
    /\ blg.box = Box(0, 0, 0, 8, 8, 8)
    /\ {"water", "polymer"} \subseteq BlgClassSet
    /\ \A v \in Voxels(2, 2, 2) : blg.labels[v] = blg.class_to_int["water"]

(***************************************************************************)
(* Specification of write_grid_xyz followed by a call of                   *)
(* write_initial_state_from_grid on the file it wrote.                     *)
(***************************************************************************)
InitState ==
    /\ \E nx \in 1..MaxDim, ny \in 1..MaxDim, nz \in 1..MaxDim :
          wgx \in { WgxInit(CodedGrid(nx, ny, nz), nx, ny, nz),
                    WgxInit(ParityGrid(nx, ny, nz), nx, ny, nz) }
    /\ lat = LatIdle
    /\ blg = BlgIdle
    /\ wis = WisIdle
    /\ emt = EmtIdle
    /\ cli = CliIdle
    /\ trj = TrjIdle
    /\ prp = PrpIdle

NextState ==
    \/ WgxOpen
    \/ WgxHeader
    \/ WgxLine
    \/ WgxClose
    \/ WisCall
    \/ WisArgs
    \/ WisOpen
    \/ WisHeader
    \/ WisLine
    \/ WisFooter
    \/ WisFinally

SpecState == InitState /\ [][NextState]_vars

WisSeeds == SelectSeq(wis.out, LAMBDA l : l.tag = "seed_on_sites")

\* the number of data lines of the grid file and the label of the N-th
WisNData == Len(wis.grid) - 2
WisDataLabel(N) == wis.grid[N + 2].vals[1]

\* data line N has been read
WisDone(N) == N + 2 <= wis.line_number

\* data line N has been read and its label has a species
WisMapped(N) == WisDone(N) /\ WisDataLabel(N) \in DOMAIN wis.label_to_species.val

\* C20: on a file written by write_grid_xyz the output is 'initial_state',
\* then one 'seed_on_sites <species> <N>' for exactly the data lines N whose
\* label is mapped, with the species of that label and in increasing N, then
\* 'end_initial_state'; unmapped labels give no line and shift no site ID,
\* and no site is seeded twice.
C20_SeedsFollowDataLines ==
    (wis.grid_exists /\ wis.pc \in {"read", "finally", "returned"}) =>
        /\ wis.grid = wgx.out
        /\ wis.out[1] = Line("initial_state", <<>>)
        /\ Len(wis.out) = 1 + Len(WisSeeds) + (IF wis.pc = "read" THEN 0 ELSE 1)
        /\ \A k \in 1..Len(WisSeeds) : wis.out[k + 1] = WisSeeds[k]
        /\ wis.pc # "read" =>
              /\ wis.out[Len(wis.out)] = Line("end_initial_state", <<>>)
              /\ \A N \in 1..WisNData : WisDone(N)
        /\ \A k \in 1..Len(WisSeeds) :
              LET N == WisSeeds[k].vals[2]
              IN  /\ N \in 1..WisNData
                  /\ WisMapped(N)
                  /\ WisSeeds[k].vals[1] = wis.label_to_species.val[WisDataLabel(N)]
        /\ \A j, k \in 1..Len(WisSeeds) :
              j < k => WisSeeds[j].vals[2] < WisSeeds[k].vals[2]
        /\ \A N \in 1..WisNData :
              WisMapped(N) => \E k \in 1..Len(WisSeeds) : WisSeeds[k].vals[2] = N

\* the 2 x 2 x 1 checkerboard with only label 1 mapped: voxels 2 and 3 are
\* seeded under their own site IDs
C20_Witness ==
    /\ wis.pc = "returned"
    /\ wgx.labels = ParityGrid(2, 2, 1)
    /\ wis.label_to_species = Some((1 :> "mw*"))
    /\ wis.out = << Line("initial_state", <<>>),
                    Line("seed_on_sites", <<"mw*", 2>>),
                    Line("seed_on_sites", <<"mw*", 3>>),
                    Line("end_initial_state", <<>>) >>

\* the call was given neither label_to_species nor mapping_file
WisNoMapping == wis.label_to_species.isNone /\ wis.mapping_file.isNone

\* the call was given a mapping file without entries (and, as in every call
\* with mapping_file here, no label_to_species)
WisEmptyMappingFile == ~wis.mapping_file.isNone /\ wis.mapping_file.val = <<>>

\* C24: a call with neither label_to_species nor mapping_file, or with a
\* mapping file without entries, raises ValueError before the output file is
\* opened and before anything is written to a supplied handle.
C24_NoMappingRejectedBeforeOpen ==
    (wis.pc # "idle" /\ (WisNoMapping \/ WisEmptyMappingFile)) =>
        /\ wis.pc \in {"args", "raised"}
        /\ wis.pc = "raised" => wis.exc = "ValueError"
        /\ ~wis.opened
        /\ ~wis.need_close
        /\ wis.out = <<>>

C24_Witness ==
    /\ wis.pc = "raised"
    /\ wis.exc = "ValueError"
    /\ WisEmptyMappingFile
    /\ wis.fhGiven
    /\ wis.out = <<>>

\* the labels of the classes tma, water and polymer, as far as they are classes
BlgMainLabels ==
    {blg.class_to_int[c] : c \in {"tma", "water", "polymer"} \cap BlgClassSet}

\* C28: when "water" and "polymer" are both classes, every voxel is labelled
\* tma, water or polymer, never void (0) and never another class, even where
\* another class has the highest count.
C28_OnlyMainLabels ==
    ({"water", "polymer"} \subseteq BlgClassSet) =>
        \A v \in BlgLabelled :
            /\ blg.labels[v] \in BlgMainLabels
            /\ blg.labels[v] # 0
            /\ \A c \in BlgClassSet \ {"tma", "water", "polymer"} :
                  blg.labels[v] # blg.class_to_int[c]

\* a voxel holding two particles of class "a" and no other is labelled water
C28_Witness ==
    /\ blg.pc = "returned"
    /\ {"water", "polymer", "a"} \subseteq BlgClassSet
    /\ \E v \in Voxels(blg.nx, blg.ny, blg.nz) :
          /\ blg.counts["a"][v] = 2
          /\ blg.counts["water"][v] = 0 /\ blg.counts["polymer"][v] = 0
          /\ blg.labels[v] = blg.class_to_int["water"]

\* indices a and b of an axis of extent n differ by +1 or -1 modulo n
AxisAdjacent(a, b, n) == a # b /\ ((a + 1) % n = b \/ (b + 1) % n = a)

\* index triples c and d differ on exactly one axis, by +1 or -1 modulo the
\* extent
TorusAdjacent(c, d) ==
    \/ AxisAdjacent(c[1], d[1], lat.nx) /\ c[2] = d[2] /\ c[3] = d[3]
    \/ c[1] = d[1] /\ AxisAdjacent(c[2], d[2], lat.ny) /\ c[3] = d[3]
    \/ c[1] = d[1] /\ c[2] = d[2] /\ AxisAdjacent(c[3], d[3], lat.nz)

\* C29: for nx, ny, nz >= 3 every neighbour ID written lies in 1..nx*ny*nz,
\* no site lists itself, and the neighbours of a site are exactly the six
\* sites that differ from it by +1 or -1 (modulo the extent) on one axis.
C29_NeighboursAreTorusAdjacent ==
    LatAllAtLeast3 =>
        \A k \in 1..Len(LatRows) :
            LET id  == RowId(LatRows[k])
                nb  == ToSet(RowNbrs(LatRows[k]))
                ids == 1..(lat.nx * lat.ny * lat.nz)
            IN  /\ nb \subseteq ids
                /\ id \notin nb
                /\ nb = { m \in ids :
                            TorusAdjacent(id_to_coord(id, lat.nx, lat.ny, lat.nz),
                                          id_to_coord(m, lat.nx, lat.ny, lat.nz)) }
                /\ Cardinality(nb) = 6

C29_Witness ==
    /\ lat.pc = "returned"
    /\ lat.nx = 4 /\ lat.ny = 3 /\ lat.nz = 3
    /\ RowNbrs(LatRows[1]) = <<2, 4, 5, 9, 13, 25>>
    /\ RowNbrs(LatRows[36]) = <<12, 24, 28, 32, 33, 35>>

(***************************************************************************)
(* Specification of one call of one of the five emitters (for              *)
(* write_initial_state_from_grid, after write_grid_xyz wrote its grid).    *)
(***************************************************************************)
InitSimple ==
    /\ emt \in {EmtInit(fn, lens, g) : fn \in EmtFunctions, lens \in SimLengths, g \in BOOLEAN}
    /\ cli = CliIdle
    /\ trj = TrjIdle
    /\ prp = PrpIdle
    /\ lat = LatIdle
    /\ blg = BlgIdle
    /\ wgx = WgxIdle
    /\ wis = WisIdle

NextSimple ==
    \/ EmtValidate
    \/ EmtOpen
    \/ EmtWrite
    \/ EmtWriteError
    \/ EmtFinally

InitEmitters == InitLattice \/ InitState \/ InitSimple

NextEmitters == NextLattice \/ NextState \/ NextSimple

SpecEmitters == InitEmitters /\ [][NextEmitters]_vars

\* the emitter call r closes what it opened, and only that: it never closes
\* a handle of the caller, and once it has returned or raised, the file it
\* opened is closed
ClosesOwnFile(r) ==
    /\ r.closed => r.opened
    /\ r.opened = r.need_close
    /\ r.fhGiven => ~r.opened /\ ~r.closed
    /\ r.pc \in {"returned", "raised"} => r.closed = r.opened
    /\ r.closed => r.pc \in {"returned", "raised"}

\* C21: each emitter closes the file it opened itself on every exit path,
\* also when an error is raised after opening, and never closes a handle
\* supplied by the caller.
C21_EmittersCloseOwnFile ==
    /\ ClosesOwnFile(lat)
    /\ ClosesOwnFile(wis)
    /\ ClosesOwnFile(emt)

\* write_degradation_mechanism opened its file, a write raised, and the file
\* was closed
C21_Witness ==
    /\ emt.pc = "raised"
    /\ emt.fn = "write_degradation_mechanism"
    /\ emt.exc = "OSError"
    /\ emt.written = 5
    /\ emt.opened /\ emt.closed

(***************************************************************************)
(* Specification of write_grid_xyz followed by a run of one of the two     *)
(* seed-preparation programs.                                              *)
(***************************************************************************)
InitCli ==
    /\ \E nx \in 1..MaxDim, ny \in 1..MaxDim, nz \in 1..MaxDim :
          wgx \in { WgxInit(CodedGrid(nx, ny, nz), nx, ny, nz),
                    WgxInit(ParityGrid(nx, ny, nz), nx, ny, nz) }
    /\ lat = LatIdle
    /\ blg = BlgIdle
    /\ wis = WisIdle
    /\ emt = EmtIdle
    /\ cli = CliIdle
    /\ trj = TrjIdle
    /\ prp = PrpIdle

NextCli ==
    \/ WgxOpen
    \/ WgxHeader
    \/ WgxLine
    \/ WgxClose
    \/ CliCall
    \/ CliStart
    \/ CliCheck
    \/ CliLattice
    \/ CliState
    \/ CliSimulation
    \/ CliMechanism
    \/ CliEnergetics

SpecCli == InitCli /\ [][NextCli]_vars

(***************************************************************************)
(* Claims about the seed-preparation programs.                             *)
(***************************************************************************)
\* the iteration of the seed at position j has ended
CliFinished(j) == j < cli.i \/ (cli.pc = "done" /\ j <= cli.i)

\* the directory of seed s held, before the run, a file the program writes
CliHadFile(s) == \E n \in cli_files(cli.prog) : cli.prior[s][n] # "absent"

\* C22: without --overwrite a seed whose directory held, before the run, any
\* of the files the program writes is skipped and its directory is left as
\* it was, and every other seed gets each of these files written (the other
\* files of its directory are left alone); with --overwrite no seed is
\* skipped; a skip never ends the loop: main ends after the last seed.
C22_SkipOrRegenerate ==
    cli.pc # "idle" =>
        /\ \A j \in 1..Len(cli.seeds) :
              CliFinished(j) =>
                  LET s == cli.seeds[j]
                  IN  IF ~cli.overwrite /\ CliHadFile(s)
                      THEN /\ j \in cli.skipped
                           /\ cli.files[s] = cli.prior[s]
                      ELSE /\ j \notin cli.skipped
                           /\ \A n \in FileNames :
                                 cli.files[s][n] = IF n \in cli_files(cli.prog)
                                                   THEN "written"
                                                   ELSE cli.prior[s][n]
        /\ (cli.pc = "done" => cli.i = Len(cli.seeds))
        /\ (cli.overwrite => cli.skipped = {})

\* a run of memkmc-zacros-prepare-run without --overwrite has ended after
\* skipping the first of two seeds, whose directory held only the files of
\* memkmc-zacros-inputs, and writing the five files of the second
C22_Witness ==
    /\ cli.pc = "done"
    /\ cli.prog = "prepare_run"
    /\ ~cli.overwrite
    /\ Len(cli.seeds) = 2
    /\ cli.skipped = {1}
    /\ cli.prior[cli.seeds[1]] = Dir({"simulation_input.dat", "mechanism_input.dat"})
    /\ \A n \in FileNames : cli.files[cli.seeds[2]][n] = "written"

\* C23: when memkmc-zacros-prepare-run has reached its final message, the
\* directory of every requested seed holds all five input files.
C23_DoneMeansComplete ==
    (cli.prog = "prepare_run" /\ cli.pc = "done") =>
        \A j \in 1..Len(cli.seeds) : \A n \in FileNames :
            cli.files[cli.seeds[j]][n] \in {"prior", "written"}

\* C30: _infer_grid_shape of the file written by write_grid_xyz for a grid
\* of shape (nx, ny, nz) is (nx, ny, nz), and the first line of the file
\* holds nx*ny*nz, which is the number of its data lines.
C30_ShapeRoundTrip ==
    (cli.prog = "prepare_run" /\ cli.grid_exists /\ cli.pc \notin {"idle", "start"}) =>
        /\ <<cli.nx, cli.ny, cli.nz>> = <<wgx.nx, wgx.ny, wgx.nz>>
        /\ split(cli.grid[1]) = << wgx.nx * wgx.ny * wgx.nz >>
        /\ Len(data_parts(cli.grid)) = wgx.nx * wgx.ny * wgx.nz

\* the shape of a grid of 2 x 3 x 1 voxels has been inferred from its file
C30_Witness ==
    /\ cli.prog = "prepare_run"
    /\ cli.grid_exists
    /\ cli.pc \notin {"idle", "start"}
    /\ <<wgx.nx, wgx.ny, wgx.nz>> = <<2, 3, 1>>
    /\ <<cli.nx, cli.ny, cli.nz>> = <<2, 3, 1>>

(***************************************************************************)
(* Specification of one call of read_lammpstrj.                            *)
(***************************************************************************)
InitTraj ==
    /\ trj \in { TrjInit(frames, frame) : frames \in Trajectories, frame \in FrameArgs }
    /\ prp = PrpIdle
    /\ lat = LatIdle
    /\ blg = BlgIdle
    /\ wgx = WgxIdle
    /\ wis = WisIdle
    /\ emt = EmtIdle
    /\ cli = CliIdle

NextTraj ==
    \/ TrjReadFrame
    \/ TrjEndOfFile

SpecTraj == InitTraj /\ [][NextTraj]_vars

\* C25: a call that has ended on a file of F frames has returned the last
\* frame for frame='last' and F > 0, and the frame at 0-based position k for
\* an integer k with 0 <= k < F; in every other case (F = 0, k >= F, k < 0)
\* it has raised ValueError.
C25_FrameSelection ==
    trj.pc \in {"returned", "raised"} =>
        LET F == Len(trj.frames)
            k == trj.arg.k
        IN  IF trj.arg.last /\ F > 0
            THEN trj.pc = "returned" /\ trj.result = Some(trj.frames[F])
            ELSE IF ~trj.arg.last /\ 0 <= k /\ k < F
            THEN trj.pc = "returned" /\ trj.result = Some(trj.frames[k + 1])
            ELSE trj.pc = "raised" /\ trj.exc = "ValueError"

\* frame 1 of three frames has been returned, and it differs from frame 0
\* and from the last frame
C25_Witness ==
    /\ trj.pc = "returned"
    /\ trj.arg = Index(1)
    /\ Len(trj.frames) = 3
    /\ trj.frames[2] # trj.frames[1]
    /\ trj.frames[2] # trj.frames[3]
    /\ trj.result = Some(trj.frames[2])

(***************************************************************************)
(* Specification of one call of count_particles, count_grid_voxels or      *)
(* compute_grid_fractions.                                                 *)
(***************************************************************************)
InitProps ==
    /\ prp \in PrpCalls
    /\ lat = LatIdle
    /\ blg = BlgIdle
    /\ wgx = WgxIdle
    /\ wis = WisIdle
    /\ emt = EmtIdle
    /\ cli = CliIdle
    /\ trj = TrjIdle

NextProps ==
    \/ PrpParticlesStart
    \/ PrpParticle
    \/ PrpParticlesReturn
    \/ PrpVoxelsStart
    \/ PrpVoxelLabel
    \/ PrpVoxelsReturn
    \/ PrpFractions

SpecProps == InitProps /\ [][NextProps]_vars

\* q is the quotient n / d
IsQuotient(q, n, d) == q.den # 0 /\ q.num * d = n * q.den

\* q is 0.0
IsZero(q) == q.den # 0 /\ q.num = 0

\* C26: a call of compute_grid_fractions that has ended has raised
\* ValueError if N_total <= 0; otherwise it has returned
\* FV = N_water_grid / (N_total - N_tma_grid) and
\* VWU = N_water_grid / (N_total - N_water_grid), each replaced by 0.0 when
\* its denominator is not positive (a missing class counts as 0).
C26_GridFractions ==
    (prp.fn = "compute_grid_fractions" /\ prp.pc \in {"returned", "raised"}) =>
        LET total == prp.grid_counts.total
            water == IF "water" \in DOMAIN prp.grid_counts.by_class
                     THEN prp.grid_counts.by_class["water"] ELSE 0
            tma   == IF "tma" \in DOMAIN prp.grid_counts.by_class
                     THEN prp.grid_counts.by_class["tma"] ELSE 0
        IN  IF total <= 0
            THEN prp.pc = "raised" /\ prp.exc = "ValueError"
            ELSE /\ prp.pc = "returned"
                 /\ IF total - tma > 0 THEN IsQuotient(prp.fv, water, total - tma)
                    ELSE IsZero(prp.fv)
                 /\ IF total - water > 0 THEN IsQuotient(prp.vwu, water, total - water)
                    ELSE IsZero(prp.vwu)

\* fractions of 3 voxels, 2 of water and 1 of tma, have been returned:
\* FV = 2/2 and VWU = 2/1
C26_Witness ==
    /\ prp.fn = "compute_grid_fractions"
    /\ prp.pc = "returned"
    /\ prp.grid_counts.total = 3
    /\ prp.grid_counts.by_class = [c \in {"water", "tma"} |-> IF c = "water" THEN 2 ELSE 1]
    /\ prp.fv = Quotient(2, 2)
    /\ prp.vwu = Quotient(2, 1)

RECURSIVE SumOf(_)
\* the sum of the values of a dict
SumOf(d) ==
    IF DOMAIN d = {} THEN 0
    ELSE LET c == CHOOSE x \in DOMAIN d : TRUE
         IN  d[c] + SumOf([x \in DOMAIN d \ {c} |-> d[x]])

\* particles whose type has no class in the mapping
Unmapped == {k \in 1..Len(prp.types) : prp.types[k] \notin DOMAIN prp.type_to_class}

\* C27: count_particles has returned total = the number of particles and
\* per-class counts that sum to it, the particles of unmapped type being
\* the count of "unknown"; count_grid_voxels has returned total = the number
\* of voxels and per-class counts that sum to it.
C27_CountsConserved ==
    prp.pc = "returned" =>
        /\ prp.fn = "count_particles" =>
              /\ prp.total = Len(prp.types)
              /\ SumOf(prp.by_class) = prp.total
              /\ Unmapped # {} =>
                    /\ "unknown" \in DOMAIN prp.by_class
                    /\ prp.by_class["unknown"] = Cardinality(Unmapped)
        /\ prp.fn = "count_grid_voxels" =>
              /\ prp.total = Len(prp.labels)
              /\ SumOf(prp.by_class) = prp.total

\* three particles have been counted, two of them of the same unmapped type
C27_Witness ==
    /\ prp.fn = "count_particles"
    /\ prp.pc = "returned"
    /\ prp.total = 3
    /\ Cardinality(Unmapped) = 2
    /\ Cardinality(DOMAIN prp.by_class) = 2
    /\ prp.by_class["unknown"] = 2

====
